---- MODULE Spec2Model ----
(***************************************************************************)
(* Agent versioning workflow of the nexent backend: the draft row          *)
(* (version_no = 0), copy-on-publish snapshots, the AgentVersion registry, *)
(* rollback, version status and version delete, together with the agent    *)
(* CRUD of agent_db.py and the tool / relation edits that feed a publish;  *)
(* and the invitation codes of invitation_service.py: creation, update,    *)
(* use, and the status derived from expiry date, capacity and usage.      *)
(*                                                                         *)
(* Every table is a sequence of rows in insertion order.  All queries of   *)
(* the source filter on one tenant_id; the model holds one tenant, so the  *)
(* tenant_id column is left out.  The source performs no uniqueness check  *)
(* before an insert or an update, and neither does the model.              *)
(***************************************************************************)
EXTENDS Integers, Sequences, FiniteSets, TLC

\* ---------------------------------------------------------------- bounds
MaxAgents == 1
MaxPublishes == 3
MaxDraftPublishes == 2
MaxRelationRows == 2
MaxInvitations == 2
MaxRecords == 2
MaxCapacity == 2
MaxTime == 2
CodeLen == 1

\* ------------------------------------------------------------- constants
None == 0 - 1
SOURCE_TYPE_NORMAL == "NORMAL"
SOURCE_TYPE_ROLLBACK == "ROLLBACK"
STATUS_RELEASED == "RELEASED"
STATUS_DISABLED == "DISABLED"
STATUS_ARCHIVED == "ARCHIVED"

ToolIds == {1}
SubAgentIds == {9}
EditedAgents == {1}
UserId == "u1"
NoUser == "NULL"
AgentIds == 1..MaxAgents
VersionNos == 0..MaxPublishes

VARIABLES
    agentInfo,          \* ag_tenant_agent_t: draft and snapshot rows
    toolInstance,       \* ToolInstance rows
    agentRelation,      \* AgentRelation rows
    agentVersion,       \* AgentVersion registry rows
    nextAgentId,        \* the agent_id sequence
    nextVersionId,      \* the AgentVersion.id sequence
    last,               \* the last call: operation, arguments, outcome
    issued,             \* history: version numbers returned by publishes, per agent
    deletedAgents,      \* history: agents passed to delete_agent_by_id
    deletedVersionIds,  \* history: registry ids soft-deleted by delete_version_impl
    pendingRollback     \* history: target of a rollback not yet followed by a publish

VARIABLES
    invitationCode,     \* InvitationCode rows
    invitationRecord,   \* InvitationRecord rows, one per use
    nextInvitationId,   \* the invitation_id sequence
    now,                \* the clock read by datetime.now()
    usePc,              \* use_invitation_code calls in flight, per user
    ilast               \* the last invitation call: operation, arguments, outcome

ivars == <<invitationCode, invitationRecord, nextInvitationId, now, usePc, ilast>>

VARIABLES
    gen,                \* the _generate_unique_invitation_code loop in flight
    response,           \* the last HTTP response: route, exception, status code
    pubPc               \* publish_version_impl calls in flight, per caller

pvars == <<gen, response, pubPc>>


tables == <<agentInfo, toolInstance, agentRelation, agentVersion>>
history == <<issued, deletedAgents, deletedVersionIds, pendingRollback>>
vars == <<agentInfo, toolInstance, agentRelation, agentVersion, nextAgentId,
          nextVersionId, last, issued, deletedAgents, deletedVersionIds,
          pendingRollback>>
allvars == <<vars, ivars, pvars>>

\* --------------------------------------------------------------- helpers
Max(S) == CHOOSE x \in S : \A y \in S : y <= x

Range(s) == {s[i] : i \in DOMAIN s}

\* The outcome of a call, as the caller sees it; arg is a further argument
\* of the call, where it has one; version_no_b is the second version of a
\* comparison.
Call(op, a, v, ok, exc, msg, items) ==
    [op |-> op, agent_id |-> a, version_no |-> v, ok |-> ok,
     exc |-> exc, msg |-> msg, items |-> items, total |-> Len(items),
     arg |-> "none", version_no_b |-> None]

Ok(op, a, v) == Call(op, a, v, TRUE, "none", "none", <<>>)
ValueError(op, a, v, msg) == Call(op, a, v, FALSE, "ValueError", msg, <<>>)

\* ------------------------------------------------- agent_version_db.py
\* Variant: the lookup does not filter on delete_flag.
search_version_by_version_no_any(a, v) ==
    SelectSeq(agentVersion, LAMBDA r : r.agent_id = a /\ r.version_no = v)

search_version_by_version_no(a, v) ==
    SelectSeq(agentVersion, LAMBDA r : r.agent_id = a /\ r.version_no = v
                                       /\ r.delete_flag = "N")

query_current_version_no(a) ==
    LET found == SelectSeq(agentInfo, LAMBDA r : r.agent_id = a /\ r.version_no = 0
                                                 /\ r.delete_flag = "N")
    IN  IF found = <<>> THEN None ELSE Head(found).current_version_no

\* Variant: only the enabled tool rows are read.
query_agent_snapshot_enabled(a, v) ==
    [agent |-> SelectSeq(agentInfo, LAMBDA r : r.agent_id = a /\ r.version_no = v
                                               /\ r.delete_flag = "N"),
     tools |-> SelectSeq(toolInstance, LAMBDA r : r.agent_id = a /\ r.version_no = v
                                                  /\ r.delete_flag = "N" /\ r.enabled),
     relations |-> SelectSeq(agentRelation, LAMBDA r : r.parent_agent_id = a
                                                       /\ r.version_no = v
                                                       /\ r.delete_flag = "N")]

query_agent_snapshot(a, v) ==
    [agent |-> SelectSeq(agentInfo, LAMBDA r : r.agent_id = a /\ r.version_no = v
                                               /\ r.delete_flag = "N"),
     tools |-> SelectSeq(toolInstance, LAMBDA r : r.agent_id = a /\ r.version_no = v
                                                  /\ r.delete_flag = "N"),
     relations |-> SelectSeq(agentRelation, LAMBDA r : r.parent_agent_id = a
                                                       /\ r.version_no = v
                                                       /\ r.delete_flag = "N")]

\* Variant: the draft lookup does not filter the agent row on delete_flag.
query_agent_draft_any(a) ==
    [query_agent_snapshot(a, 0) EXCEPT
        !.agent = SelectSeq(agentInfo, LAMBDA r : r.agent_id = a /\ r.version_no = 0)]

query_agent_draft(a) == query_agent_snapshot(a, 0)

\* Variant: "(max_version or 1) + 1".
get_next_version_no_or1(a) ==
    LET vs == {agentInfo[i].version_no : i \in {j \in DOMAIN agentInfo :
                   agentInfo[j].agent_id = a /\ agentInfo[j].delete_flag = "N"}}
        max_version == IF vs = {} \/ Max(vs) = 0 THEN 1 ELSE Max(vs)
    IN  max_version + 1

\* Variant: the maximum is taken over the non-deleted registry rows.
get_next_version_no_registry(a) ==
    LET vs == {agentVersion[i].version_no : i \in {j \in DOMAIN agentVersion :
                   agentVersion[j].agent_id = a /\ agentVersion[j].delete_flag = "N"}}
        max_version == IF vs = {} THEN 0 ELSE Max(vs)
    IN  max_version + 1

get_next_version_no(a) ==
    LET vs == {agentInfo[i].version_no : i \in {j \in DOMAIN agentInfo :
                   agentInfo[j].agent_id = a /\ agentInfo[j].delete_flag = "N"}}
        max_version == IF vs = {} THEN 0 ELSE Max(vs)
    IN  max_version + 1

\* Variant: the update does not filter on version_no = 0.
update_agent_current_version_all(tbl, a, n) ==
    [i \in DOMAIN tbl |->
        IF tbl[i].agent_id = a /\ tbl[i].delete_flag = "N"
        THEN [tbl[i] EXCEPT !.current_version_no = n]
        ELSE tbl[i]]

\* Variant: the update matches no row.
update_agent_current_version_none(tbl, a, n) == tbl

\* update_agent_current_version applied to the AgentInfo rows tbl.
update_agent_current_version(tbl, a, n) ==
    [i \in DOMAIN tbl |->
        IF tbl[i].agent_id = a /\ tbl[i].version_no = 0 /\ tbl[i].delete_flag = "N"
        THEN [tbl[i] EXCEPT !.current_version_no = n]
        ELSE tbl[i]]

update_agent_current_version_rowcount(tbl, a) ==
    Cardinality({i \in DOMAIN tbl : tbl[i].agent_id = a /\ tbl[i].version_no = 0
                                    /\ tbl[i].delete_flag = "N"})

\* --------------------------------------------- agent_version_service.py
\* The copy of a row under a new version number: the audit fields and
\* delete_flag are removed before the insert, so the columns take their
\* defaults; an AgentInfo copy also drops current_version_no.
agent_snapshot_row(draft, n) ==
    [draft EXCEPT !.version_no = n, !.current_version_no = None,
                  !.created_by = NoUser, !.updated_by = NoUser, !.delete_flag = "N"]

tool_snapshot_row(tool, n) ==
    [tool EXCEPT !.version_no = n, !.updated_by = NoUser, !.delete_flag = "N"]

relation_snapshot_row(rel, n) ==
    [rel EXCEPT !.version_no = n, !.updated_by = NoUser, !.delete_flag = "N"]

version_data(a, n, id, source_type, source_version_no) ==
    [id |-> id, agent_id |-> a, version_no |-> n, source_type |-> source_type,
     source_version_no |-> source_version_no, status |-> STATUS_RELEASED,
     created_by |-> UserId, updated_by |-> NoUser, delete_flag |-> "N"]

publish_version_impl(a, source_type, source_version_no) ==
    LET draft == query_agent_draft(a)
        n == get_next_version_no(a)
    IN  IF draft.agent = <<>>
        THEN /\ last' = ValueError("publish", a, None, "Agent draft not found")
             /\ UNCHANGED <<tables, nextVersionId, history>>
        ELSE /\ nextVersionId <= MaxPublishes
             /\ agentInfo' = update_agent_current_version(
                    Append(agentInfo, agent_snapshot_row(Head(draft.agent), n)), a, n)
             /\ toolInstance' = toolInstance \o
                    [i \in 1..Len(draft.tools) |-> tool_snapshot_row(draft.tools[i], n)]
             /\ agentRelation' = agentRelation \o
                    [i \in 1..Len(draft.relations) |->
                        relation_snapshot_row(draft.relations[i], n)]
             /\ agentVersion' = Append(agentVersion,
                    version_data(a, n, nextVersionId, source_type, source_version_no))
             /\ nextVersionId' = nextVersionId + 1
             /\ last' = Ok("publish", a, n)
             /\ issued' = [issued EXCEPT ![a] = @ \cup {n}]
             /\ pendingRollback' = [pendingRollback EXCEPT ![a] = None]
             /\ UNCHANGED <<deletedAgents, deletedVersionIds>>

\* query_version_list: the non-deleted registry rows of the agent, ordered
\* by version_no descending (rows of equal version_no keep insertion order).
RECURSIVE order_by_version_no_desc(_)
order_by_version_no_desc(rows) ==
    IF rows = <<>> THEN <<>>
    ELSE LET top == Max({rows[i].version_no : i \in DOMAIN rows})
             k == CHOOSE i \in DOMAIN rows :
                      /\ rows[i].version_no = top
                      /\ \A j \in DOMAIN rows : rows[j].version_no = top => i <= j
         IN  <<rows[k]>> \o order_by_version_no_desc(
                 SubSeq(rows, 1, k - 1) \o SubSeq(rows, k + 1, Len(rows)))

\* Variant: the listing does not filter on delete_flag.
query_version_list_all(a) ==
    order_by_version_no_desc(SelectSeq(agentVersion, LAMBDA r : r.agent_id = a))

query_version_list(a) ==
    order_by_version_no_desc(
        SelectSeq(agentVersion, LAMBDA r : r.agent_id = a /\ r.delete_flag = "N"))

get_version_list_impl(a) ==
    /\ last' = Call("list", a, None, TRUE, "none", "none", query_version_list(a))
    /\ UNCHANGED <<tables, nextAgentId, nextVersionId, history>>

\* get_version_detail_impl and _get_version_detail_or_draft: of the fields
\* of the result the model carries those of the snapshot rows that it
\* carries, the tools and the sub_agent_id_list.
get_version_detail_impl(a, v) ==
    LET version == search_version_by_version_no(a, v)
        snapshot == query_agent_snapshot(a, v)
    IN  IF version = <<>>
        THEN [ok |-> FALSE, msg |-> "Version not found", name |-> "none",
              tools |-> <<>>, sub_agent_id_list |-> <<>>]
        ELSE IF snapshot.agent = <<>>
        THEN [ok |-> FALSE, msg |-> "Agent snapshot not found", name |-> "none",
              tools |-> <<>>, sub_agent_id_list |-> <<>>]
        ELSE [ok |-> TRUE, msg |-> "none", name |-> Head(snapshot.agent).name,
              tools |-> snapshot.tools,
              sub_agent_id_list |-> [i \in 1..Len(snapshot.relations) |->
                                        snapshot.relations[i].selected_agent_id]]

\* Variant: the draft shows its enabled tools only.
get_version_detail_or_draft_enabled(a, v) ==
    LET draft == query_agent_snapshot_enabled(a, 0)
    IN  IF v = 0
        THEN IF draft.agent = <<>>
             THEN [ok |-> FALSE, msg |-> "Draft version not found", name |-> "none",
                   tools |-> <<>>, sub_agent_id_list |-> <<>>]
             ELSE [ok |-> TRUE, msg |-> "none", name |-> Head(draft.agent).name,
                   tools |-> draft.tools,
                   sub_agent_id_list |-> [i \in 1..Len(draft.relations) |->
                                             draft.relations[i].selected_agent_id]]
        ELSE get_version_detail_impl(a, v)

get_version_detail_or_draft(a, v) ==
    LET draft == query_agent_draft(a)
    IN  IF v = 0
        THEN IF draft.agent = <<>>
             THEN [ok |-> FALSE, msg |-> "Draft version not found", name |-> "none",
                   tools |-> <<>>, sub_agent_id_list |-> <<>>]
             ELSE [ok |-> TRUE, msg |-> "none", name |-> Head(draft.agent).name,
                   tools |-> draft.tools,
                   sub_agent_id_list |-> [i \in 1..Len(draft.relations) |->
                                             draft.relations[i].selected_agent_id]]
        ELSE get_version_detail_impl(a, v)

\* compare_versions_impl: the differences in the order the code appends
\* them.
compare_versions_impl(a, version_no_a, version_no_b) ==
    LET version_a == get_version_detail_or_draft(a, version_no_a)
        version_b == get_version_detail_or_draft(a, version_no_b)
        name_diff ==
            IF version_a.name # version_b.name
            THEN <<[field |-> "name", value_a |-> version_a.name,
                    value_b |-> version_b.name]>>
            ELSE <<>>
        tools_diff ==
            IF Len(version_a.tools) # Len(version_b.tools)
            THEN <<[field |-> "tools_count", value_a |-> Len(version_a.tools),
                    value_b |-> Len(version_b.tools)]>>
            ELSE <<>>
        sub_agents_diff ==
            IF Len(version_a.sub_agent_id_list) # Len(version_b.sub_agent_id_list)
            THEN <<[field |-> "sub_agents_count",
                    value_a |-> Len(version_a.sub_agent_id_list),
                    value_b |-> Len(version_b.sub_agent_id_list)]>>
            ELSE <<>>
    IN  /\ UNCHANGED <<tables, nextAgentId, nextVersionId, history>>
        /\ IF ~version_a.ok
           THEN last' = [ValueError("compare", a, version_no_a, version_a.msg)
                           EXCEPT !.version_no_b = version_no_b]
           ELSE IF ~version_b.ok
           THEN last' = [ValueError("compare", a, version_no_a, version_b.msg)
                           EXCEPT !.version_no_b = version_no_b]
           ELSE last' = [Call("compare", a, version_no_a, TRUE, "none", "none",
                              name_diff \o tools_diff \o sub_agents_diff)
                           EXCEPT !.version_no_b = version_no_b]

\* Variant: the rollback also restores the target snapshot's content into
\* the draft row.
rollback_version_impl_restore(a, target_version_no) ==
    LET version == search_version_by_version_no(a, target_version_no)
        rows_affected == update_agent_current_version_rowcount(agentInfo, a)
        snapshot == query_agent_snapshot(a, target_version_no).agent
        pointed == update_agent_current_version(agentInfo, a, target_version_no)
    IN  /\ UNCHANGED <<toolInstance, agentRelation, agentVersion, nextAgentId,
                       nextVersionId, issued, deletedAgents, deletedVersionIds>>
        /\ IF version = <<>>
           THEN /\ last' = ValueError("rollback", a, target_version_no, "Version not found")
                /\ UNCHANGED <<agentInfo, pendingRollback>>
           ELSE /\ agentInfo' = [i \in DOMAIN pointed |->
                       IF /\ pointed[i].agent_id = a /\ pointed[i].version_no = 0
                          /\ pointed[i].delete_flag = "N" /\ snapshot # <<>>
                       THEN [pointed[i] EXCEPT !.name = Head(snapshot).name]
                       ELSE pointed[i]]
                /\ IF rows_affected = 0
                   THEN /\ last' = ValueError("rollback", a, target_version_no,
                                              "Agent draft not found")
                        /\ UNCHANGED pendingRollback
                   ELSE /\ last' = Ok("rollback", a, target_version_no)
                        /\ pendingRollback' =
                               [pendingRollback EXCEPT ![a] = target_version_no]

\* Variant: the target version is not looked up.
rollback_version_impl_unchecked(a, target_version_no) ==
    LET rows_affected == update_agent_current_version_rowcount(agentInfo, a)
    IN  /\ UNCHANGED <<toolInstance, agentRelation, agentVersion, nextAgentId,
                       nextVersionId, issued, deletedAgents, deletedVersionIds>>
        /\ agentInfo' = update_agent_current_version(agentInfo, a, target_version_no)
        /\ IF rows_affected = 0
           THEN /\ last' = ValueError("rollback", a, target_version_no,
                                      "Agent draft not found")
                /\ UNCHANGED pendingRollback
           ELSE /\ last' = Ok("rollback", a, target_version_no)
                /\ pendingRollback' =
                       [pendingRollback EXCEPT ![a] = target_version_no]

rollback_version_impl(a, target_version_no) ==
    LET version == search_version_by_version_no(a, target_version_no)
        rows_affected == update_agent_current_version_rowcount(agentInfo, a)
    IN  /\ UNCHANGED <<toolInstance, agentRelation, agentVersion, nextAgentId,
                       nextVersionId, issued, deletedAgents, deletedVersionIds>>
        /\ IF version = <<>>
           THEN /\ last' = ValueError("rollback", a, target_version_no, "Version not found")
                /\ UNCHANGED <<agentInfo, pendingRollback>>
           ELSE /\ agentInfo' = update_agent_current_version(agentInfo, a, target_version_no)
                /\ IF rows_affected = 0
                   THEN /\ last' = ValueError("rollback", a, target_version_no,
                                              "Agent draft not found")
                        /\ UNCHANGED pendingRollback
                   ELSE /\ last' = Ok("rollback", a, target_version_no)
                        /\ pendingRollback' =
                               [pendingRollback EXCEPT ![a] = target_version_no]

\* update_version_status of agent_version_db.py, applied to the registry.
update_version_status(a, v, status) ==
    [i \in DOMAIN agentVersion |->
        IF /\ agentVersion[i].agent_id = a /\ agentVersion[i].version_no = v
           /\ agentVersion[i].delete_flag = "N"
        THEN [agentVersion[i] EXCEPT !.status = status, !.updated_by = UserId]
        ELSE agentVersion[i]]

\* Variant: RELEASED is on the allow-list.
update_version_status_impl_released(a, v, status) ==
    /\ UNCHANGED <<agentInfo, toolInstance, agentRelation, nextAgentId,
                   nextVersionId, history>>
    /\ IF status \notin {STATUS_RELEASED, STATUS_DISABLED, STATUS_ARCHIVED}
       THEN /\ last' = [ValueError("status", a, v, "Invalid status")
                           EXCEPT !.arg = status]
            /\ UNCHANGED agentVersion
       ELSE IF search_version_by_version_no(a, v) = <<>>
       THEN /\ last' = [ValueError("status", a, v, "Version not found")
                           EXCEPT !.arg = status]
            /\ UNCHANGED agentVersion
       ELSE /\ agentVersion' = update_version_status(a, v, status)
            /\ last' = [Ok("status", a, v) EXCEPT !.arg = status]

update_version_status_impl(a, v, status) ==
    /\ UNCHANGED <<agentInfo, toolInstance, agentRelation, nextAgentId,
                   nextVersionId, history>>
    /\ IF status \notin {STATUS_DISABLED, STATUS_ARCHIVED}
       THEN /\ last' = [ValueError("status", a, v, "Invalid status")
                           EXCEPT !.arg = status]
            /\ UNCHANGED agentVersion
       ELSE IF search_version_by_version_no(a, v) = <<>>
       THEN /\ last' = [ValueError("status", a, v, "Version not found")
                           EXCEPT !.arg = status]
            /\ UNCHANGED agentVersion
       ELSE /\ agentVersion' = update_version_status(a, v, status)
            /\ last' = [Ok("status", a, v) EXCEPT !.arg = status]

\* delete_version of agent_version_db.py, applied to the registry.
delete_version(a, v) ==
    [i \in DOMAIN agentVersion |->
        IF /\ agentVersion[i].agent_id = a /\ agentVersion[i].version_no = v
           /\ agentVersion[i].delete_flag = "N"
        THEN [agentVersion[i] EXCEPT !.delete_flag = "Y", !.updated_by = UserId]
        ELSE agentVersion[i]]

\* Variant: the current published version is not protected.
delete_version_check_nocurrent(a, v) ==
    IF search_version_by_version_no(a, v) = <<>> THEN "Version not found"
    ELSE IF v = 0 THEN "Cannot delete draft version"
    ELSE "none"

\* The outcome of delete_version_impl before anything is written:
\* "none" when the delete goes ahead.
delete_version_check(a, v) ==
    IF search_version_by_version_no(a, v) = <<>> THEN "Version not found"
    ELSE IF query_current_version_no(a) = v
         THEN "Cannot delete the current published version"
    ELSE IF v = 0 THEN "Cannot delete draft version"
    ELSE "none"

delete_version_impl(a, v) ==
    /\ UNCHANGED <<agentInfo, toolInstance, agentRelation, nextAgentId,
                   nextVersionId, issued, deletedAgents, pendingRollback>>
    /\ IF delete_version_check(a, v) # "none"
       THEN /\ last' = ValueError("delete_version", a, v, delete_version_check(a, v))
            /\ UNCHANGED <<agentVersion, deletedVersionIds>>
       ELSE /\ agentVersion' = delete_version(a, v)
            /\ deletedVersionIds' = deletedVersionIds \cup
                   {r.id : r \in Range(search_version_by_version_no(a, v))}
            /\ last' = Ok("delete_version", a, v)

get_current_version_impl(a) ==
    LET current_version_no == query_current_version_no(a)
        version == search_version_by_version_no(a, current_version_no)
    IN  /\ UNCHANGED <<tables, nextAgentId, nextVersionId, history>>
        /\ IF current_version_no = None
           THEN last' = ValueError("current_version", a, None, "No published version")
           ELSE IF version = <<>>
           THEN last' = ValueError("current_version", a, current_version_no,
                                   "Version not found")
           ELSE last' = Call("current_version", a, current_version_no, TRUE, "none",
                             "none", version)

\* ----------------------------------------------------------- agent_app.py
publish_version_api(a) ==
    /\ publish_version_impl(a, SOURCE_TYPE_NORMAL, None)
    /\ UNCHANGED nextAgentId

\* ------------------------------------------------------------ agent_db.py
create_agent(name) ==
    /\ nextAgentId <= MaxAgents
    /\ agentInfo' = Append(agentInfo,
           [agent_id |-> nextAgentId, version_no |-> 0, current_version_no |-> None,
            name |-> name, created_by |-> UserId, updated_by |-> UserId,
            delete_flag |-> "N"])
    /\ nextAgentId' = nextAgentId + 1
    /\ last' = Ok("create_agent", nextAgentId, 0)
    /\ UNCHANGED <<toolInstance, agentRelation, agentVersion, nextVersionId, history>>

\* update_agent: the first non-deleted row of (agent_id, version_no) takes
\* every non-None field of agent_info that is an AgentInfo column.  Of the
\* request's fields the model carries name and version_no (default 0);
\* agent_info.agent_id is the agent_id argument.
update_agent(a, info_name, info_version_no, version_no) ==
    LET found == {i \in DOMAIN agentInfo :
                     /\ agentInfo[i].agent_id = a
                     /\ agentInfo[i].version_no = version_no
                     /\ agentInfo[i].delete_flag # "Y"}
        k == CHOOSE i \in found : \A j \in found : i <= j
    IN  /\ UNCHANGED <<toolInstance, agentRelation, agentVersion, nextAgentId,
                       nextVersionId, history>>
        /\ IF found = {}
           THEN /\ last' = ValueError("update_agent", a, version_no, "Agent not found")
                /\ UNCHANGED agentInfo
           ELSE /\ agentInfo' = [agentInfo EXCEPT ![k] =
                       [@ EXCEPT !.name = info_name, !.version_no = info_version_no,
                                 !.updated_by = UserId]]
                /\ last' = Ok("update_agent", a, version_no)

\* Variant: only the draft rows are flagged.
delete_agent_by_id_draft(a) ==
    /\ agentInfo' = [i \in DOMAIN agentInfo |->
           IF agentInfo[i].agent_id = a /\ agentInfo[i].version_no = 0
           THEN [agentInfo[i] EXCEPT !.delete_flag = "Y", !.updated_by = UserId]
           ELSE agentInfo[i]]
    /\ toolInstance' = [i \in DOMAIN toolInstance |->
           IF toolInstance[i].agent_id = a /\ toolInstance[i].version_no = 0
           THEN [toolInstance[i] EXCEPT !.delete_flag = "Y", !.updated_by = UserId]
           ELSE toolInstance[i]]
    /\ deletedAgents' = IF a < nextAgentId THEN deletedAgents \cup {a} ELSE deletedAgents
    /\ last' = Ok("delete_agent", a, None)
    /\ UNCHANGED <<agentRelation, agentVersion, nextAgentId, nextVersionId,
                   issued, deletedVersionIds, pendingRollback>>

delete_agent_by_id(a) ==
    /\ agentInfo' = [i \in DOMAIN agentInfo |->
           IF agentInfo[i].agent_id = a
           THEN [agentInfo[i] EXCEPT !.delete_flag = "Y", !.updated_by = UserId]
           ELSE agentInfo[i]]
    /\ toolInstance' = [i \in DOMAIN toolInstance |->
           IF toolInstance[i].agent_id = a
           THEN [toolInstance[i] EXCEPT !.delete_flag = "Y", !.updated_by = UserId]
           ELSE toolInstance[i]]
    /\ deletedAgents' = IF a < nextAgentId THEN deletedAgents \cup {a} ELSE deletedAgents
    /\ last' = Ok("delete_agent", a, None)
    /\ UNCHANGED <<agentRelation, agentVersion, nextAgentId, nextVersionId,
                   issued, deletedVersionIds, pendingRollback>>

\* Variant: the soft delete of removed relations does not filter on version_no.
update_related_agents_allversions(a, related_agent_ids, version_no) ==
    LET current_related_ids ==
            {agentRelation[i].selected_agent_id : i \in {j \in DOMAIN agentRelation :
                /\ agentRelation[j].parent_agent_id = a
                /\ agentRelation[j].version_no = version_no
                /\ agentRelation[j].delete_flag # "Y"}}
        ids_to_delete == current_related_ids \ related_agent_ids
        ids_to_add == related_agent_ids \ current_related_ids
        removed == [i \in DOMAIN agentRelation |->
            IF /\ agentRelation[i].parent_agent_id = a
               /\ agentRelation[i].selected_agent_id \in ids_to_delete
            THEN [agentRelation[i] EXCEPT !.delete_flag = "Y", !.updated_by = UserId]
            ELSE agentRelation[i]]
        \* SubAgentIds holds one id, so at most one relation is added
        added == IF ids_to_add = {} THEN <<>>
                 ELSE <<[parent_agent_id |-> a,
                         selected_agent_id |-> CHOOSE c \in ids_to_add : TRUE,
                         version_no |-> version_no, updated_by |-> UserId,
                         delete_flag |-> "N"]>>
    IN  /\ Len(agentRelation) + Len(added) <= MaxRelationRows
        /\ agentRelation' = removed \o added
        /\ last' = Ok("update_related_agents", a, version_no)
        /\ UNCHANGED <<agentInfo, toolInstance, agentVersion, nextAgentId,
                       nextVersionId, history>>

update_related_agents(a, related_agent_ids, version_no) ==
    LET current_related_ids ==
            {agentRelation[i].selected_agent_id : i \in {j \in DOMAIN agentRelation :
                /\ agentRelation[j].parent_agent_id = a
                /\ agentRelation[j].version_no = version_no
                /\ agentRelation[j].delete_flag # "Y"}}
        ids_to_delete == current_related_ids \ related_agent_ids
        ids_to_add == related_agent_ids \ current_related_ids
        removed == [i \in DOMAIN agentRelation |->
            IF /\ agentRelation[i].parent_agent_id = a
               /\ agentRelation[i].selected_agent_id \in ids_to_delete
               /\ agentRelation[i].version_no = version_no
            THEN [agentRelation[i] EXCEPT !.delete_flag = "Y", !.updated_by = UserId]
            ELSE agentRelation[i]]
        \* SubAgentIds holds one id, so at most one relation is added
        added == IF ids_to_add = {} THEN <<>>
                 ELSE <<[parent_agent_id |-> a,
                         selected_agent_id |-> CHOOSE c \in ids_to_add : TRUE,
                         version_no |-> version_no, updated_by |-> UserId,
                         delete_flag |-> "N"]>>
    IN  /\ Len(agentRelation) + Len(added) <= MaxRelationRows
        /\ agentRelation' = removed \o added
        /\ last' = Ok("update_related_agents", a, version_no)
        /\ UNCHANGED <<agentInfo, toolInstance, agentVersion, nextAgentId,
                       nextVersionId, history>>

\* ------------------------------------------------------------- tool_db.py
create_or_update_tool_by_tool_info(a, tool_id, enabled, version_no) ==
    LET found == {i \in DOMAIN toolInstance :
                     /\ toolInstance[i].agent_id = a
                     /\ toolInstance[i].delete_flag # "Y"
                     /\ toolInstance[i].tool_id = tool_id
                     /\ toolInstance[i].version_no = version_no}
        k == CHOOSE i \in found : \A j \in found : i <= j
    IN  /\ IF found # {}
           THEN toolInstance' = [toolInstance EXCEPT ![k] = [@ EXCEPT !.enabled = enabled]]
           ELSE toolInstance' = Append(toolInstance,
                       [agent_id |-> a, tool_id |-> tool_id, version_no |-> version_no,
                        enabled |-> enabled, updated_by |-> NoUser, delete_flag |-> "N"])
        /\ last' = Ok("save_tool", a, version_no)
        /\ UNCHANGED <<agentInfo, agentRelation, agentVersion, nextAgentId,
                       nextVersionId, history>>

\* ------------------------------------------------------ invitation codes
\* An invitation code is a string of CodeLen characters; str.upper() maps
\* each lower-case letter to its upper-case letter and keeps the rest.
Alphabet == {"a", "A", "1"}
Codes == [1..CodeLen -> Alphabet]
NoCode == <<>>

UpperChar(c) == IF c = "a" THEN "A" ELSE c
Upper(code) == [i \in DOMAIN code |-> UpperChar(code[i])]

Users == {"u1", "u2"}
IN_USE == "IN_USE"
EXPIRE == "EXPIRE"
RUN_OUT == "RUN_OUT"
max_attempts == 100

\* The result of an invitation call, as the caller sees it.
InvCall(op, code, id, ok, exc) ==
    [op |-> op, code |-> code, invitation_id |-> id, ok |-> ok, exc |-> exc,
     status |-> "none", changed |-> FALSE, generated |-> NoCode,
     code_type |-> "none", user_role |-> "none"]

\* ------------------------------------------- database/invitation_db.py
\* The first row that carries the code (compared as stored), or <<>>.
query_invitation_by_code(tbl, code) ==
    LET found == SelectSeq(tbl, LAMBDA r : r.invitation_code = code)
    IN  IF found = <<>> THEN <<>> ELSE <<Head(found)>>

query_invitation_by_id(tbl, id) ==
    LET found == SelectSeq(tbl, LAMBDA r : r.invitation_id = id)
    IN  IF found = <<>> THEN <<>> ELSE <<Head(found)>>

add_invitation(tbl, id, code, code_type, capacity, expiry_date, status) ==
    Append(tbl, [invitation_id |-> id, invitation_code |-> code,
                 code_type |-> code_type, capacity |-> capacity,
                 expiry_date |-> expiry_date, status |-> status])

\* modify_invitation with updates = {capacity, expiry_date}; None leaves a
\* field as it is.
modify_invitation(tbl, id, capacity, expiry_date) ==
    [i \in DOMAIN tbl |->
        IF tbl[i].invitation_id = id
        THEN [tbl[i] EXCEPT
                 !.capacity = IF capacity = None THEN @ ELSE capacity,
                 !.expiry_date = IF expiry_date = None THEN @ ELSE expiry_date]
        ELSE tbl[i]]

\* modify_invitation with updates = {status}.
modify_invitation_status(tbl, id, status) ==
    [i \in DOMAIN tbl |->
        IF tbl[i].invitation_id = id THEN [tbl[i] EXCEPT !.status = status]
        ELSE tbl[i]]

add_invitation_record(recs, id, user_id) ==
    Append(recs, [invitation_id |-> id, user_id |-> user_id])

count_invitation_usage(recs, id) ==
    Cardinality({i \in DOMAIN recs : recs[i].invitation_id = id})

\* --------------------------------------------------- invitation_service.py
\* Variant: the capacity check comes first and wins over the expiry check.
update_status_new_status_capfirst(current_time, expiry_date, capacity, usage_count) ==
    IF usage_count >= capacity THEN RUN_OUT
    ELSE IF expiry_date # None /\ current_time > expiry_date THEN EXPIRE
    ELSE IN_USE

\* The status update_invitation_code_status decides on.
update_status_new_status(current_time, expiry_date, capacity, usage_count) ==
    LET checked_expiry == IF expiry_date # None /\ current_time > expiry_date
                          THEN EXPIRE ELSE IN_USE
    IN  IF checked_expiry = IN_USE /\ usage_count >= capacity
        THEN RUN_OUT ELSE checked_expiry

\* Variant: True is returned for every invitation that is found.
update_invitation_code_status_changed_found(tbl, recs, current_time, id) ==
    query_invitation_by_id(tbl, id) # <<>>

\* update_invitation_code_status: whether it wrote, and the table it leaves.
update_invitation_code_status_changed(tbl, recs, current_time, id) ==
    LET info == query_invitation_by_id(tbl, id)
    IN  /\ info # <<>>
        /\ update_status_new_status(current_time, Head(info).expiry_date,
               Head(info).capacity, count_invitation_usage(recs, id))
           # Head(info).status

update_invitation_code_status(tbl, recs, current_time, id) ==
    LET info == query_invitation_by_id(tbl, id)
    IN  IF update_invitation_code_status_changed(tbl, recs, current_time, id)
        THEN modify_invitation_status(tbl, id,
                 update_status_new_status(current_time, Head(info).expiry_date,
                     Head(info).capacity, count_invitation_usage(recs, id)))
        ELSE tbl

\* The status _calculate_current_status reports for a stored row.
calculate_current_status(row, recs, current_time) ==
    LET checked_expiry == IF row.expiry_date # None /\ current_time > row.expiry_date
                          THEN EXPIRE ELSE row.status
    IN  IF count_invitation_usage(recs, row.invitation_id) >= row.capacity
        THEN RUN_OUT ELSE checked_expiry

check_invitation_available(tbl, recs, code) ==
    LET invitation == query_invitation_by_code(tbl, code)
    IN  /\ invitation # <<>>
        /\ Head(invitation).status = IN_USE
        /\ count_invitation_usage(recs, Head(invitation).invitation_id)
              < Head(invitation).capacity

\* _generate_unique_invitation_code: every result the loop can end with.
\* Each attempt draws a code with random.choices and returns its upper-case
\* form when no row carries the code as drawn; the table does not change
\* during the loop, so the loop runs out of its max_attempts attempts
\* exactly when a code that some row carries can be drawn every time.
generate_unique_invitation_code(tbl) ==
    {[ok |-> TRUE, code |-> Upper(code)] :
        code \in {c \in Codes : max_attempts > 0
                                 /\ query_invitation_by_code(tbl, c) = <<>>}}
    \cup IF max_attempts = 0 \/ \E c \in Codes : query_invitation_by_code(tbl, c) # <<>>
         THEN {[ok |-> FALSE, code |-> NoCode]}
         ELSE {}

\* Variant: the row is added without the lookup of the code.
create_invitation_with_code_nolookup(code_type, code, capacity, expiry_date, status, generated, user_role) ==
    LET added == add_invitation(invitationCode, nextInvitationId, code,
                     code_type, capacity, expiry_date, status)
        final == update_invitation_code_status(added, invitationRecord, now,
                     nextInvitationId)
    IN  /\ nextInvitationId <= MaxInvitations
        /\ invitationCode' = final
        /\ nextInvitationId' = nextInvitationId + 1
        /\ ilast' = [InvCall("create", code, nextInvitationId, TRUE, "none")
                       EXCEPT !.generated = generated,
                              !.status = final[Len(final)].status,
                              !.code_type = code_type,
                              !.user_role = user_role]

\* create_invitation_code once the invitation code is settled.
create_invitation_with_code(code_type, code, capacity, expiry_date, status, generated, user_role) ==
    IF query_invitation_by_code(invitationCode, code) # <<>>
    THEN /\ ilast' = [InvCall("create", code, None, FALSE, "DuplicateError")
                         EXCEPT !.generated = generated, !.code_type = code_type,
                                !.user_role = user_role]
         /\ UNCHANGED <<invitationCode, nextInvitationId>>
    ELSE LET added == add_invitation(invitationCode, nextInvitationId, code,
                          code_type, capacity, expiry_date, status)
             final == update_invitation_code_status(added, invitationRecord, now,
                          nextInvitationId)
         IN  /\ nextInvitationId <= MaxInvitations
             /\ invitationCode' = final
             /\ nextInvitationId' = nextInvitationId + 1
             /\ ilast' = [InvCall("create", code, nextInvitationId, TRUE, "none")
                            EXCEPT !.generated = generated,
                                   !.status = final[Len(final)].status,
                                   !.code_type = code_type,
                                   !.user_role = user_role]

\* Variant: ADMIN_INVITE is open to the roles of the other code types.
create_invitation_code_adminrole(code_type, invitation_code, capacity, expiry_date, status, user_role) ==
    /\ UNCHANGED <<invitationRecord, now, usePc>>
    /\ IF code_type \notin {"ADMIN_INVITE", "DEV_INVITE", "USER_INVITE"}
       THEN /\ ilast' = [InvCall("create", invitation_code, None, FALSE, "ValueError")
                           EXCEPT !.code_type = code_type, !.user_role = user_role]
            /\ UNCHANGED <<invitationCode, nextInvitationId>>
       ELSE IF user_role = "none"
       THEN /\ ilast' = [InvCall("create", invitation_code, None, FALSE, "NotFoundException")
                           EXCEPT !.code_type = code_type, !.user_role = user_role]
            /\ UNCHANGED <<invitationCode, nextInvitationId>>
       ELSE IF \/ code_type = "ADMIN_INVITE" /\ user_role \notin {"SU", "ADMIN"}
               \/ code_type \in {"DEV_INVITE", "USER_INVITE"}
                  /\ user_role \notin {"SU", "ADMIN"}
       THEN /\ ilast' = [InvCall("create", invitation_code, None, FALSE, "UnauthorizedError")
                           EXCEPT !.code_type = code_type, !.user_role = user_role]
            /\ UNCHANGED <<invitationCode, nextInvitationId>>
       ELSE IF invitation_code = NoCode
       THEN \E g \in generate_unique_invitation_code(invitationCode) :
               IF ~g.ok
               THEN /\ ilast' = [InvCall("create", NoCode, None, FALSE, "RuntimeError")
                                   EXCEPT !.code_type = code_type,
                                          !.user_role = user_role]
                    /\ UNCHANGED <<invitationCode, nextInvitationId>>
               ELSE create_invitation_with_code(code_type, g.code, capacity,
                        expiry_date, status, g.code, user_role)
       ELSE create_invitation_with_code(code_type, Upper(invitation_code), capacity,
                expiry_date, status, NoCode, user_role)

create_invitation_code(code_type, invitation_code, capacity, expiry_date, status, user_role) ==
    /\ UNCHANGED <<invitationRecord, now, usePc>>
    /\ IF code_type \notin {"ADMIN_INVITE", "DEV_INVITE", "USER_INVITE"}
       THEN /\ ilast' = [InvCall("create", invitation_code, None, FALSE, "ValueError")
                           EXCEPT !.code_type = code_type, !.user_role = user_role]
            /\ UNCHANGED <<invitationCode, nextInvitationId>>
       ELSE IF user_role = "none"
       THEN /\ ilast' = [InvCall("create", invitation_code, None, FALSE, "NotFoundException")
                           EXCEPT !.code_type = code_type, !.user_role = user_role]
            /\ UNCHANGED <<invitationCode, nextInvitationId>>
       ELSE IF \/ code_type = "ADMIN_INVITE" /\ user_role \notin {"SU"}
               \/ code_type \in {"DEV_INVITE", "USER_INVITE"}
                  /\ user_role \notin {"SU", "ADMIN"}
       THEN /\ ilast' = [InvCall("create", invitation_code, None, FALSE, "UnauthorizedError")
                           EXCEPT !.code_type = code_type, !.user_role = user_role]
            /\ UNCHANGED <<invitationCode, nextInvitationId>>
       ELSE IF invitation_code = NoCode
       THEN \E g \in generate_unique_invitation_code(invitationCode) :
               IF ~g.ok
               THEN /\ ilast' = [InvCall("create", NoCode, None, FALSE, "RuntimeError")
                                   EXCEPT !.code_type = code_type,
                                          !.user_role = user_role]
                    /\ UNCHANGED <<invitationCode, nextInvitationId>>
               ELSE create_invitation_with_code(code_type, g.code, capacity,
                        expiry_date, status, g.code, user_role)
       ELSE create_invitation_with_code(code_type, Upper(invitation_code), capacity,
                expiry_date, status, NoCode, user_role)

\* update_invitation_code with updates = {capacity, expiry_date}.
update_invitation_code(id, capacity, expiry_date, user_role) ==
    /\ UNCHANGED <<invitationRecord, nextInvitationId, now, usePc>>
    /\ IF user_role \notin {"SU", "ADMIN"}
       THEN /\ ilast' = InvCall("update", NoCode, id, FALSE, "UnauthorizedError")
            /\ UNCHANGED invitationCode
       ELSE IF query_invitation_by_id(invitationCode, id) = <<>>
       THEN /\ ilast' = InvCall("update", NoCode, id, FALSE, "none")
            /\ UNCHANGED invitationCode
       ELSE LET modified == modify_invitation(invitationCode, id, capacity, expiry_date)
                final == update_invitation_code_status(modified, invitationRecord, now, id)
            IN  /\ invitationCode' = final
                /\ ilast' = [InvCall("update", NoCode, id, TRUE, "none") EXCEPT
                       !.status = Head(query_invitation_by_id(final, id)).status,
                       !.changed = update_invitation_code_status_changed(
                                       modified, invitationRecord, now, id)]

\* A call of update_invitation_code_status on its own.
update_invitation_status(id) ==
    /\ UNCHANGED <<invitationRecord, nextInvitationId, now, usePc>>
    /\ invitationCode' = update_invitation_code_status(invitationCode,
                             invitationRecord, now, id)
    /\ ilast' = [InvCall("update_status", NoCode, id, TRUE, "none") EXCEPT
           !.changed = update_invitation_code_status_changed(
                           invitationCode, invitationRecord, now, id)]

get_invitation_by_code(invitation_code) ==
    LET invitation_data == query_invitation_by_code(invitationCode, invitation_code)
    IN  /\ UNCHANGED <<invitationCode, invitationRecord, nextInvitationId, now, usePc>>
        /\ IF invitation_data = <<>>
           THEN ilast' = InvCall("get", invitation_code, None, FALSE, "none")
           ELSE ilast' = [InvCall("get", invitation_code,
                                  Head(invitation_data).invitation_id, TRUE, "none")
                            EXCEPT !.status = calculate_current_status(
                                       Head(invitation_data), invitationRecord, now)]

\* use_invitation_code run without another call in between.
use_invitation_code(invitation_code, user_id) ==
    LET invitation_info == query_invitation_by_code(invitationCode, invitation_code)
        id == Head(invitation_info).invitation_id
        recs == add_invitation_record(invitationRecord, id, user_id)
        final == update_invitation_code_status(invitationCode, recs, now, id)
    IN  /\ UNCHANGED <<nextInvitationId, now, usePc>>
        /\ IF ~check_invitation_available(invitationCode, invitationRecord, invitation_code)
           THEN /\ ilast' = InvCall("use", invitation_code, None, FALSE, "NotFoundException")
                /\ UNCHANGED <<invitationCode, invitationRecord>>
           ELSE /\ Len(invitationRecord) < MaxRecords
                /\ invitationRecord' = recs
                /\ invitationCode' = final
                /\ ilast' = [InvCall("use", invitation_code, id, TRUE, "none") EXCEPT
                       !.status = Head(query_invitation_by_id(final, id)).status]

\* use_invitation_code as its database sessions: the availability check,
\* the lookup with the insert of the record, and the status update.
Idle == [stage |-> "idle", code |-> NoCode, invitation_id |-> None]

use_check(user_id, invitation_code) ==
    /\ usePc[user_id] = Idle
    /\ UNCHANGED <<invitationCode, invitationRecord, nextInvitationId, now>>
    /\ IF ~check_invitation_available(invitationCode, invitationRecord, invitation_code)
       THEN /\ ilast' = InvCall("use", invitation_code, None, FALSE, "NotFoundException")
            /\ UNCHANGED usePc
       ELSE /\ usePc' = [usePc EXCEPT ![user_id] =
                   [stage |-> "checked", code |-> invitation_code, invitation_id |-> None]]
            /\ ilast' = InvCall("use_check", invitation_code, None, TRUE, "none")

use_add(user_id) ==
    LET invitation_info == query_invitation_by_code(invitationCode, usePc[user_id].code)
        id == Head(invitation_info).invitation_id
    IN  /\ usePc[user_id].stage = "checked"
        /\ UNCHANGED <<invitationCode, nextInvitationId, now>>
        /\ IF invitation_info = <<>>
           THEN /\ ilast' = InvCall("use", usePc[user_id].code, None, FALSE,
                                    "NotFoundException")
                /\ usePc' = [usePc EXCEPT ![user_id] = Idle]
                /\ UNCHANGED invitationRecord
           ELSE /\ Len(invitationRecord) < MaxRecords
                /\ invitationRecord' = add_invitation_record(invitationRecord, id, user_id)
                /\ usePc' = [usePc EXCEPT ![user_id] =
                       [stage |-> "added", code |-> @.code, invitation_id |-> id]]
                /\ ilast' = InvCall("use_add", usePc[user_id].code, id, TRUE, "none")

use_status(user_id) ==
    LET id == usePc[user_id].invitation_id
        final == update_invitation_code_status(invitationCode, invitationRecord, now, id)
    IN  /\ usePc[user_id].stage = "added"
        /\ UNCHANGED <<invitationRecord, nextInvitationId, now>>
        /\ invitationCode' = final
        /\ usePc' = [usePc EXCEPT ![user_id] = Idle]
        /\ ilast' = [InvCall("use", usePc[user_id].code, id, TRUE, "none") EXCEPT
               !.status = Head(query_invitation_by_id(final, id)).status]

\* create_invitation_code without invitation_code, by a caller whose role
\* permits the code type, as the passes of the while loop of
\* _generate_unique_invitation_code: gen counts the passes completed without
\* a return (attempts) and the uniqueness queries made.
GenIdle == [stage |-> "idle", attempts |-> 0, queries |-> 0, capacity |-> 0]

generate_begin(capacity) ==
    /\ gen.stage # "running"
    /\ gen' = [stage |-> "running", attempts |-> 0, queries |-> 0,
               capacity |-> capacity]
    /\ ilast' = InvCall("create_begin", NoCode, None, TRUE, "none")
    /\ UNCHANGED <<invitationCode, invitationRecord, nextInvitationId, now, usePc,
                   response, pubPc>>

\* Variant: the loop condition is attempts <= max_attempts.
generate_step_inclusive(code) ==
    /\ gen.stage = "running"
    /\ UNCHANGED <<invitationRecord, now, usePc, response, pubPc>>
    /\ IF gen.attempts <= max_attempts
       THEN IF query_invitation_by_code(invitationCode, code) = <<>>
            THEN /\ create_invitation_with_code("USER_INVITE", Upper(code),
                        gen.capacity, None, IN_USE, Upper(code), "ADMIN")
                 /\ gen' = [gen EXCEPT !.stage = "returned", !.queries = @ + 1]
            ELSE /\ gen' = [gen EXCEPT !.attempts = @ + 1, !.queries = @ + 1]
                 /\ UNCHANGED <<invitationCode, nextInvitationId, ilast>>
       ELSE /\ gen' = [gen EXCEPT !.stage = "raised"]
            /\ ilast' = InvCall("create", NoCode, None, FALSE, "RuntimeError")
            /\ UNCHANGED <<invitationCode, nextInvitationId>>

\* One pass of the loop with the code drawn by random.choices, followed by
\* the rest of create_invitation_code when the pass returns; or, once the
\* loop condition fails, the raise that ends the call.
generate_step(code) ==
    /\ gen.stage = "running"
    /\ UNCHANGED <<invitationRecord, now, usePc, response, pubPc>>
    /\ IF gen.attempts < max_attempts
       THEN IF query_invitation_by_code(invitationCode, code) = <<>>
            THEN /\ create_invitation_with_code("USER_INVITE", Upper(code),
                        gen.capacity, None, IN_USE, Upper(code), "ADMIN")
                 /\ gen' = [gen EXCEPT !.stage = "returned", !.queries = @ + 1]
            ELSE /\ gen' = [gen EXCEPT !.attempts = @ + 1, !.queries = @ + 1]
                 /\ UNCHANGED <<invitationCode, nextInvitationId, ilast>>
       ELSE /\ gen' = [gen EXCEPT !.stage = "raised"]
            /\ ilast' = InvCall("create", NoCode, None, FALSE, "RuntimeError")
            /\ UNCHANGED <<invitationCode, nextInvitationId>>

\* Time passes.
Tick ==
    /\ now < MaxTime
    /\ now' = now + 1
    /\ ilast' = InvCall("tick", NoCode, None, TRUE, "none")
    /\ UNCHANGED <<invitationCode, invitationRecord, nextInvitationId, usePc>>

\* -------------------------------- publish_version_impl, call by call
\* publish_version_impl as its database calls, each of which runs and
\* commits in a session of its own (get_db_session): stage names the call
\* to make next, done counts the rows the current loop has inserted.
Publishers == {"p1", "p2"}

PubIdle == [stage |-> "idle", agent_id |-> None, new_version_no |-> None,
            draft |-> [agent |-> <<>>, tools |-> <<>>, relations |-> <<>>],
            done |-> 0]

\* The stage after the agent snapshot, and after done tool or relation rows.
loop_stage(pc, stage, done) ==
    IF stage = "tools" /\ done < Len(pc.draft.tools) THEN "tools"
    ELSE IF stage \in {"tools", "relations"} /\ pc.draft.relations # <<>>
            /\ (stage = "tools" \/ done < Len(pc.draft.relations))
    THEN "relations"
    ELSE "version"

publish_query_agent_draft(p, a) ==
    LET draft == query_agent_draft(a)
    IN  /\ pubPc[p].stage \in {"idle", "done", "failed"}
        /\ UNCHANGED <<tables, nextAgentId, nextVersionId, history, gen, response>>
        /\ IF draft.agent = <<>>
           THEN /\ last' = ValueError("publish", a, None, "Agent draft not found")
                /\ pubPc' = [pubPc EXCEPT ![p] = PubIdle]
           ELSE /\ pubPc' = [pubPc EXCEPT ![p] =
                       [PubIdle EXCEPT !.stage = "next_version_no", !.agent_id = a,
                                       !.draft = draft]]
                /\ UNCHANGED last

publish_get_next_version_no(p) ==
    /\ pubPc[p].stage = "next_version_no"
    /\ pubPc' = [pubPc EXCEPT ![p] =
           [@ EXCEPT !.stage = "agent",
                     !.new_version_no = get_next_version_no(pubPc[p].agent_id)]]
    /\ UNCHANGED <<vars, gen, response>>

publish_insert_agent_snapshot(p) ==
    LET pc == pubPc[p]
    IN  /\ pc.stage = "agent"
        /\ Len(agentInfo) <= MaxPublishes
        /\ agentInfo' = Append(agentInfo,
               agent_snapshot_row(Head(pc.draft.agent), pc.new_version_no))
        /\ pubPc' = [pubPc EXCEPT ![p] =
               [@ EXCEPT !.stage = loop_stage(pc, "tools", 0), !.done = 0]]
        /\ UNCHANGED <<toolInstance, agentRelation, agentVersion, nextAgentId,
                       nextVersionId, last, history, gen, response>>

publish_insert_tool_snapshot(p) ==
    LET pc == pubPc[p]
    IN  /\ pc.stage = "tools"
        /\ toolInstance' = Append(toolInstance,
               tool_snapshot_row(pc.draft.tools[pc.done + 1], pc.new_version_no))
        /\ pubPc' = [pubPc EXCEPT ![p] =
               [@ EXCEPT !.stage = loop_stage(pc, "tools", pc.done + 1),
                         !.done = IF loop_stage(pc, "tools", pc.done + 1) = "tools"
                                  THEN pc.done + 1 ELSE 0]]
        /\ UNCHANGED <<agentInfo, agentRelation, agentVersion, nextAgentId,
                       nextVersionId, last, history, gen, response>>

publish_insert_relation_snapshot(p) ==
    LET pc == pubPc[p]
    IN  /\ pc.stage = "relations"
        /\ agentRelation' = Append(agentRelation,
               relation_snapshot_row(pc.draft.relations[pc.done + 1],
                                     pc.new_version_no))
        /\ pubPc' = [pubPc EXCEPT ![p] =
               [@ EXCEPT !.stage = loop_stage(pc, "relations", pc.done + 1),
                         !.done = IF loop_stage(pc, "relations", pc.done + 1)
                                       = "relations"
                                  THEN pc.done + 1 ELSE 0]]
        /\ UNCHANGED <<agentInfo, toolInstance, agentVersion, nextAgentId,
                       nextVersionId, last, history, gen, response>>

\* Variant: a registry row is not inserted when the agent has a row with the
\* version number already.
publish_insert_version_unique(p) ==
    LET pc == pubPc[p]
    IN  /\ pc.stage = "version"
        /\ nextVersionId <= MaxPublishes
        /\ IF search_version_by_version_no(pc.agent_id, pc.new_version_no) # <<>>
           THEN UNCHANGED <<agentVersion, nextVersionId>>
           ELSE /\ agentVersion' = Append(agentVersion,
                       version_data(pc.agent_id, pc.new_version_no, nextVersionId,
                                    SOURCE_TYPE_NORMAL, None))
                /\ nextVersionId' = nextVersionId + 1
        /\ pubPc' = [pubPc EXCEPT ![p] = [@ EXCEPT !.stage = "current"]]
        /\ UNCHANGED <<agentInfo, toolInstance, agentRelation, nextAgentId, last,
                       history, gen, response>>

publish_insert_version(p) ==
    LET pc == pubPc[p]
    IN  /\ pc.stage = "version"
        /\ nextVersionId <= MaxPublishes
        /\ agentVersion' = Append(agentVersion,
               version_data(pc.agent_id, pc.new_version_no, nextVersionId,
                            SOURCE_TYPE_NORMAL, None))
        /\ nextVersionId' = nextVersionId + 1
        /\ pubPc' = [pubPc EXCEPT ![p] = [@ EXCEPT !.stage = "current"]]
        /\ UNCHANGED <<agentInfo, toolInstance, agentRelation, nextAgentId, last,
                       history, gen, response>>

publish_update_agent_current_version(p) ==
    LET pc == pubPc[p]
    IN  /\ pc.stage = "current"
        /\ agentInfo' = update_agent_current_version(agentInfo, pc.agent_id,
                                                     pc.new_version_no)
        /\ last' = Ok("publish", pc.agent_id, pc.new_version_no)
        /\ issued' = [issued EXCEPT ![pc.agent_id] = @ \cup {pc.new_version_no}]
        /\ pendingRollback' = [pendingRollback EXCEPT ![pc.agent_id] = None]
        /\ pubPc' = [pubPc EXCEPT ![p] = [@ EXCEPT !.stage = "done"]]
        /\ UNCHANGED <<toolInstance, agentRelation, agentVersion, nextAgentId,
                       nextVersionId, deletedAgents, deletedVersionIds, gen, response>>

\* Variant: the failure takes back the rows the call has inserted under its
\* version number.
publish_fail_rollback(p) ==
    LET pc == pubPc[p]
        n == pc.new_version_no
    IN  /\ pc.stage \in {"next_version_no", "agent", "tools", "relations",
                          "version", "current"}
        /\ agentInfo' = SelectSeq(agentInfo, LAMBDA r :
               ~(r.agent_id = pc.agent_id /\ r.version_no = n))
        /\ toolInstance' = SelectSeq(toolInstance, LAMBDA r :
               ~(r.agent_id = pc.agent_id /\ r.version_no = n))
        /\ agentRelation' = SelectSeq(agentRelation, LAMBDA r :
               ~(r.parent_agent_id = pc.agent_id /\ r.version_no = n))
        /\ agentVersion' = SelectSeq(agentVersion, LAMBDA r :
               ~(r.agent_id = pc.agent_id /\ r.version_no = n))
        /\ last' = [Call("publish", pc.agent_id, n, FALSE, "Exception", "none", <<>>)
                      EXCEPT !.arg = pc.stage]
        /\ pubPc' = [pubPc EXCEPT ![p] = [@ EXCEPT !.stage = "failed"]]
        /\ UNCHANGED <<nextAgentId, nextVersionId, history, gen, response>>

\* The call that stage names raises: get_db_session rolls that session
\* back, which holds nothing of the calls before it, and raises again;
\* publish_version_impl has no handler, so the exception ends it.
publish_fail(p) ==
    LET pc == pubPc[p]
    IN  /\ pc.stage \in {"next_version_no", "agent", "tools", "relations",
                          "version", "current"}
        /\ last' = [Call("publish", pc.agent_id, pc.new_version_no, FALSE,
                         "Exception", "none", <<>>)
                      EXCEPT !.arg = pc.stage]
        /\ pubPc' = [pubPc EXCEPT ![p] = [@ EXCEPT !.stage = "failed"]]
        /\ UNCHANGED <<tables, nextAgentId, nextVersionId, history, gen, response>>

\* ------------------------------------------ agent_app.py, invitation_app.py
\* http.HTTPStatus
OK == 200
CREATED == 201
BAD_REQUEST == 400
UNAUTHORIZED == 401
NOT_FOUND == 404
CONFLICT == 409
INTERNAL_SERVER_ERROR == 500

\* What the body of a route's try block can end with: no exception, one of
\* the exception classes the routes name, or another exception, for which
\* RuntimeError stands.  None of the classes derives from another one.
Exceptions == {"none", "ValueError", "NotFoundException", "UnauthorizedError",
               "DuplicateError", "ValidationError", "RuntimeError"}

VersionRoutes == {"publish_version_api", "compare_versions_api",
                  "get_version_list_api", "get_version_api",
                  "get_version_detail_api", "rollback_version_api",
                  "update_version_status_api", "delete_version_api",
                  "get_current_version_api"}
InvitationRoutes == {"list_invitations_endpoint", "create_invitation_endpoint",
                     "update_invitation_endpoint", "get_invitation_endpoint",
                     "check_invitation_code_endpoint", "delete_invitation_endpoint",
                     "check_invitation_available_endpoint", "use_invitation_endpoint",
                     "update_invitation_status_endpoint"}
Routes == VersionRoutes \cup InvitationRoutes

\* The except clauses of a route before its final "except Exception", in
\* their order.
\* Variant: get_version_api answers ValueError like the writing routes.
except_clauses_uniform(route) ==
    CASE route \in {"publish_version_api", "compare_versions_api",
                    "rollback_version_api", "update_version_status_api",
                    "delete_version_api", "get_version_api"}
           -> <<[exception |-> "ValueError", status_code |-> BAD_REQUEST]>>
      [] route \in {"get_version_detail_api", "get_current_version_api"}
           -> <<[exception |-> "ValueError", status_code |-> NOT_FOUND]>>
      [] route = "list_invitations_endpoint"
           -> <<[exception |-> "UnauthorizedError", status_code |-> UNAUTHORIZED]>>
      [] route = "create_invitation_endpoint"
           -> <<[exception |-> "ValueError", status_code |-> BAD_REQUEST],
                [exception |-> "DuplicateError", status_code |-> CONFLICT],
                [exception |-> "NotFoundException", status_code |-> NOT_FOUND],
                [exception |-> "UnauthorizedError", status_code |-> UNAUTHORIZED]>>
      [] route \in {"update_invitation_endpoint", "delete_invitation_endpoint"}
           -> <<[exception |-> "NotFoundException", status_code |-> NOT_FOUND],
                [exception |-> "ValidationError", status_code |-> BAD_REQUEST],
                [exception |-> "UnauthorizedError", status_code |-> UNAUTHORIZED]>>
      [] route \in {"get_invitation_endpoint", "update_invitation_status_endpoint"}
           -> <<[exception |-> "NotFoundException", status_code |-> NOT_FOUND]>>
      [] route = "use_invitation_endpoint"
           -> <<[exception |-> "NotFoundException", status_code |-> NOT_FOUND],
                [exception |-> "UnauthorizedError", status_code |-> UNAUTHORIZED]>>
      [] OTHER -> <<>>

except_clauses(route) ==
    CASE route \in {"publish_version_api", "compare_versions_api",
                    "rollback_version_api", "update_version_status_api",
                    "delete_version_api"}
           -> <<[exception |-> "ValueError", status_code |-> BAD_REQUEST]>>
      [] route \in {"get_version_api", "get_version_detail_api",
                    "get_current_version_api"}
           -> <<[exception |-> "ValueError", status_code |-> NOT_FOUND]>>
      [] route = "list_invitations_endpoint"
           -> <<[exception |-> "UnauthorizedError", status_code |-> UNAUTHORIZED]>>
      [] route = "create_invitation_endpoint"
           -> <<[exception |-> "ValueError", status_code |-> BAD_REQUEST],
                [exception |-> "DuplicateError", status_code |-> CONFLICT],
                [exception |-> "NotFoundException", status_code |-> NOT_FOUND],
                [exception |-> "UnauthorizedError", status_code |-> UNAUTHORIZED]>>
      [] route \in {"update_invitation_endpoint", "delete_invitation_endpoint"}
           -> <<[exception |-> "NotFoundException", status_code |-> NOT_FOUND],
                [exception |-> "ValidationError", status_code |-> BAD_REQUEST],
                [exception |-> "UnauthorizedError", status_code |-> UNAUTHORIZED]>>
      [] route \in {"get_invitation_endpoint", "update_invitation_status_endpoint"}
           -> <<[exception |-> "NotFoundException", status_code |-> NOT_FOUND]>>
      [] route = "use_invitation_endpoint"
           -> <<[exception |-> "NotFoundException", status_code |-> NOT_FOUND],
                [exception |-> "UnauthorizedError", status_code |-> UNAUTHORIZED]>>
      [] OTHER -> <<>>

\* The status code of the response: the first except clause that names the
\* exception, and "except Exception" after them.
http_status(route, exception) ==
    LET matching == SelectSeq(except_clauses(route),
                              LAMBDA c : c.exception = exception)
    IN  IF exception = "none"
        THEN IF route = "create_invitation_endpoint" THEN CREATED ELSE OK
        ELSE IF matching # <<>> THEN Head(matching).status_code
        ELSE INTERNAL_SERVER_ERROR

\* A request to a route whose try block ends with the exception.
request(route, exception) ==
    /\ response' = [route |-> route, exception |-> exception,
                    status_code |-> http_status(route, exception)]
    /\ UNCHANGED <<vars, ivars, gen, pubPc>>

\* ---------------------------------------------------------- specification
Init ==
    /\ agentInfo = <<>>
    /\ toolInstance = <<>>
    /\ agentRelation = <<>>
    /\ agentVersion = <<>>
    /\ nextAgentId = 1
    /\ nextVersionId = 1
    /\ last = Ok("init", None, None)
    /\ issued = [a \in AgentIds |-> {}]
    /\ deletedAgents = {}
    /\ deletedVersionIds = {}
    /\ pendingRollback = [a \in AgentIds |-> None]
    /\ invitationCode = <<>>
    /\ invitationRecord = <<>>
    /\ nextInvitationId = 1
    /\ now = 0
    /\ usePc = [u \in Users |-> Idle]
    /\ ilast = InvCall("init", NoCode, None, TRUE, "none")
    /\ gen = GenIdle
    /\ response = [route |-> "none", exception |-> "none", status_code |-> OK]
    /\ pubPc = [p \in Publishers |-> PubIdle]

Statuses == {STATUS_RELEASED, STATUS_DISABLED, STATUS_ARCHIVED}

\* The version workflow on agents whose draft content is not edited.
Next ==
    \/ create_agent("n1")
           /\ UNCHANGED <<ivars, pvars>>
    \/ \E a \in AgentIds : delete_agent_by_id(a)
           /\ UNCHANGED <<ivars, pvars>>
    \/ \E a \in AgentIds : publish_version_api(a)
           /\ UNCHANGED <<ivars, pvars>>
    \/ \E a \in AgentIds, v \in VersionNos : rollback_version_impl(a, v)
           /\ UNCHANGED <<ivars, pvars>>
    \/ \E a \in AgentIds, v \in VersionNos : delete_version_impl(a, v)
           /\ UNCHANGED <<ivars, pvars>>
    \/ \E a \in AgentIds : get_version_list_impl(a)
           /\ UNCHANGED <<ivars, pvars>>

\* Publish, rollback, version status update and version delete on the
\* first agent.
NextStatus ==
    \/ nextAgentId \in EditedAgents /\ create_agent("n1")
           /\ UNCHANGED <<ivars, pvars>>
    \/ \E a \in EditedAgents : publish_version_api(a)
           /\ UNCHANGED <<ivars, pvars>>
    \/ \E a \in EditedAgents, v \in VersionNos : rollback_version_impl(a, v)
           /\ UNCHANGED <<ivars, pvars>>
    \/ \E a \in EditedAgents, v \in VersionNos, st \in Statuses :
           update_version_status_impl(a, v, st)
           /\ UNCHANGED <<ivars, pvars>>
    \/ \E a \in EditedAgents, v \in VersionNos : delete_version_impl(a, v)
           /\ UNCHANGED <<ivars, pvars>>

\* Draft edits made the default way (version_no = 0) on the first agent,
\* publish and rollback on every agent.
NextDraft ==
    \/ create_agent("n1")
           /\ UNCHANGED <<ivars, pvars>>
    \/ \E a \in EditedAgents : update_agent(a, "n2", 0, 0)
           /\ UNCHANGED <<ivars, pvars>>
    \/ \E a \in EditedAgents, ids \in SUBSET SubAgentIds :
           update_related_agents(a, ids, 0)
           /\ UNCHANGED <<ivars, pvars>>
    \/ \E a \in EditedAgents, t \in ToolIds, e \in BOOLEAN :
           create_or_update_tool_by_tool_info(a, t, e, 0)
           /\ UNCHANGED <<ivars, pvars>>
    \/ \E a \in EditedAgents : nextVersionId <= MaxDraftPublishes /\ publish_version_api(a)
           /\ UNCHANGED <<ivars, pvars>>
    \/ \E a \in EditedAgents, v \in 0..MaxDraftPublishes : rollback_version_impl(a, v)
           /\ UNCHANGED <<ivars, pvars>>

\* Draft edits made the default way on the first agent, interleaved with
\* publish and rollback, and with the status update and the delete of the
\* first version.
NextSnapshot ==
    \/ nextAgentId \in EditedAgents /\ create_agent("n1")
           /\ UNCHANGED <<ivars, pvars>>
    \/ \E a \in EditedAgents : update_agent(a, "n2", 0, 0)
           /\ UNCHANGED <<ivars, pvars>>
    \/ \E a \in EditedAgents, ids \in SUBSET SubAgentIds :
           update_related_agents(a, ids, 0)
           /\ UNCHANGED <<ivars, pvars>>
    \/ \E a \in EditedAgents, t \in ToolIds, e \in BOOLEAN :
           create_or_update_tool_by_tool_info(a, t, e, 0)
           /\ UNCHANGED <<ivars, pvars>>
    \/ \E a \in EditedAgents : nextVersionId <= MaxDraftPublishes /\ publish_version_api(a)
           /\ UNCHANGED <<ivars, pvars>>
    \/ \E a \in EditedAgents, v \in 1..MaxDraftPublishes : rollback_version_impl(a, v)
           /\ UNCHANGED <<ivars, pvars>>
    \/ \E a \in EditedAgents, v \in {1} :
           update_version_status_impl(a, v, STATUS_DISABLED)
           /\ UNCHANGED <<ivars, pvars>>
    \/ \E a \in EditedAgents, v \in {1} : delete_version_impl(a, v)
           /\ UNCHANGED <<ivars, pvars>>

\* Agent CRUD: update_agent is called with the default version_no argument
\* and a request whose own version_no field is any number.
NextAgents ==
    \/ create_agent("n1")
           /\ UNCHANGED <<ivars, pvars>>
    \/ \E a \in AgentIds, iv \in 0..MaxDraftPublishes : update_agent(a, "n1", iv, 0)
           /\ UNCHANGED <<ivars, pvars>>
    \/ \E a \in AgentIds : delete_agent_by_id(a)
           /\ UNCHANGED <<ivars, pvars>>
    \/ \E a \in AgentIds : nextVersionId <= MaxDraftPublishes /\ publish_version_api(a)
           /\ UNCHANGED <<ivars, pvars>>
    \/ \E a \in AgentIds, v \in 0..MaxDraftPublishes : rollback_version_impl(a, v)
           /\ UNCHANGED <<ivars, pvars>>
    \/ \E a \in AgentIds, v \in 0..MaxDraftPublishes : delete_version_impl(a, v)
           /\ UNCHANGED <<ivars, pvars>>

InvitationIds == 1..MaxInvitations
UpperCodes == {Upper(c) : c \in Codes}
ExpiryDates == {None} \cup 1..MaxTime

\* One invitation made, changed, used and read by an admin while time
\* passes.
NextInvite ==
    \/ \E c \in UpperCodes, cap \in 1..MaxCapacity, e \in ExpiryDates :
           /\ nextInvitationId = 1
           /\ create_invitation_code("USER_INVITE", c, cap, e, IN_USE, "ADMIN")
           /\ UNCHANGED <<vars, pvars>>
    \/ \E id \in InvitationIds, cap \in {None} \cup 1..MaxCapacity, e \in ExpiryDates :
           /\ cap # None \/ e # None
           /\ update_invitation_code(id, cap, e, "ADMIN")
           /\ UNCHANGED <<vars, pvars>>
    \/ \E c \in UpperCodes : use_invitation_code(c, "u1") /\ UNCHANGED <<vars, pvars>>
    \/ \E id \in InvitationIds : update_invitation_status(id) /\ UNCHANGED <<vars, pvars>>
    \/ \E c \in UpperCodes : get_invitation_by_code(c) /\ UNCHANGED <<vars, pvars>>
    \/ Tick /\ UNCHANGED <<vars, pvars>>

\* Two users use the same invitation at the same time.
NextInviteRace ==
    \/ \E c \in UpperCodes, cap \in 1..MaxCapacity :
           create_invitation_code("USER_INVITE", c, cap, None, IN_USE, "ADMIN")
           /\ UNCHANGED <<vars, pvars>>
    \/ \E u \in Users, c \in UpperCodes : use_check(u, c) /\ UNCHANGED <<vars, pvars>>
    \/ \E u \in Users : use_add(u) /\ UNCHANGED <<vars, pvars>>
    \/ \E u \in Users : use_status(u) /\ UNCHANGED <<vars, pvars>>

\* Invitations made with a given code or a generated one.
NextInviteCodes ==
    \/ \E c \in Codes \cup {NoCode} :
           create_invitation_code("USER_INVITE", c, 1, None, IN_USE, "ADMIN")
           /\ UNCHANGED <<vars, pvars>>
    \/ \E c \in Codes : use_invitation_code(c, "u1") /\ UNCHANGED <<vars, pvars>>
    \/ \E c \in Codes : get_invitation_by_code(c) /\ UNCHANGED <<vars, pvars>>

CodeTypes == {"ADMIN_INVITE", "DEV_INVITE", "USER_INVITE", "OTHER_INVITE"}
Roles == {"SU", "ADMIN", "DEV", "USER", "none"}

\* Invitations of every code type made by callers of every role; the role
\* "none" stands for a user_id that get_user_tenant_by_user_id does not find.
NextInviteRoles ==
    \/ \E ct \in CodeTypes, c \in UpperCodes \cup {NoCode}, role \in Roles :
           /\ create_invitation_code(ct, c, 1, None, IN_USE, role)
           /\ UNCHANGED <<vars, pvars>>
    \/ \E c \in UpperCodes : get_invitation_by_code(c) /\ UNCHANGED <<vars, pvars>>

\* Invitations made with a given code, and with a generated one, the
\* generator loop shown pass by pass; no other call runs during the loop.
NextGenerate ==
    \/ \E c \in UpperCodes :
           /\ gen.stage # "running"
           /\ create_invitation_code("USER_INVITE", c, 1, None, IN_USE, "ADMIN")
           /\ UNCHANGED <<vars, pvars>>
    \/ generate_begin(1) /\ UNCHANGED vars
    \/ \E c \in Codes : generate_step(c) /\ UNCHANGED vars

\* Requests to every route, ending with every exception.
NextRoutes ==
    \E route \in Routes, exception \in Exceptions : request(route, exception)

\* Two callers publish the first agent at the same time, call by call; the
\* draft gets its tools and sub-agents before the first publish.
NextPublishRace ==
    \/ nextAgentId \in EditedAgents /\ create_agent("n1")
           /\ UNCHANGED <<ivars, pvars>>
    \/ \E a \in EditedAgents, t \in ToolIds :
           /\ \A p \in Publishers : pubPc[p].stage = "idle"
           /\ create_or_update_tool_by_tool_info(a, t, TRUE, 0)
           /\ UNCHANGED <<ivars, pvars>>
    \/ \E a \in EditedAgents :
           /\ \A p \in Publishers : pubPc[p].stage = "idle"
           /\ update_related_agents(a, SubAgentIds, 0)
           /\ UNCHANGED <<ivars, pvars>>
    \/ \E p \in Publishers, a \in EditedAgents : publish_query_agent_draft(p, a) /\ UNCHANGED ivars
    \/ \E p \in Publishers : publish_get_next_version_no(p) /\ UNCHANGED ivars
    \/ \E p \in Publishers : publish_insert_agent_snapshot(p) /\ UNCHANGED ivars
    \/ \E p \in Publishers : publish_insert_tool_snapshot(p) /\ UNCHANGED ivars
    \/ \E p \in Publishers : publish_insert_relation_snapshot(p) /\ UNCHANGED ivars
    \/ \E p \in Publishers : publish_insert_version(p) /\ UNCHANGED ivars
    \/ \E p \in Publishers : publish_update_agent_current_version(p) /\ UNCHANGED ivars

\* One caller publishes the first agent call by call, and a call can fail.
NextPublishCrash ==
    \/ nextAgentId \in EditedAgents /\ create_agent("n1")
           /\ UNCHANGED <<ivars, pvars>>
    \/ \E a \in EditedAgents, t \in ToolIds :
           create_or_update_tool_by_tool_info(a, t, TRUE, 0)
           /\ UNCHANGED <<ivars, pvars>>
    \/ \E a \in EditedAgents : update_related_agents(a, SubAgentIds, 0)
           /\ UNCHANGED <<ivars, pvars>>
    \/ \E p \in {"p1"}, a \in EditedAgents : publish_query_agent_draft(p, a) /\ UNCHANGED ivars
    \/ \E p \in {"p1"} : publish_get_next_version_no(p) /\ UNCHANGED ivars
    \/ \E p \in {"p1"} : publish_insert_agent_snapshot(p) /\ UNCHANGED ivars
    \/ \E p \in {"p1"} : publish_insert_tool_snapshot(p) /\ UNCHANGED ivars
    \/ \E p \in {"p1"} : publish_insert_relation_snapshot(p) /\ UNCHANGED ivars
    \/ \E p \in {"p1"} : publish_insert_version(p) /\ UNCHANGED ivars
    \/ \E p \in {"p1"} : publish_update_agent_current_version(p) /\ UNCHANGED ivars
    \/ \E p \in {"p1"} : publish_fail(p) /\ UNCHANGED ivars

\* Draft edits and publishes on the first agent, and comparisons of its
\* versions.
NextCompare ==
    \/ nextAgentId \in EditedAgents /\ create_agent("n1")
           /\ UNCHANGED <<ivars, pvars>>
    \/ \E a \in EditedAgents : update_agent(a, "n2", 0, 0)
           /\ UNCHANGED <<ivars, pvars>>
    \/ \E a \in EditedAgents, ids \in SUBSET SubAgentIds :
           update_related_agents(a, ids, 0)
           /\ UNCHANGED <<ivars, pvars>>
    \/ \E a \in EditedAgents, t \in ToolIds, e \in BOOLEAN :
           create_or_update_tool_by_tool_info(a, t, e, 0)
           /\ UNCHANGED <<ivars, pvars>>
    \/ \E a \in EditedAgents : nextVersionId <= MaxDraftPublishes /\ publish_version_api(a)
           /\ UNCHANGED <<ivars, pvars>>
    \/ \E a \in EditedAgents, va \in 0..MaxDraftPublishes, vb \in 0..MaxDraftPublishes :
           compare_versions_impl(a, va, vb)
           /\ UNCHANGED <<ivars, pvars>>

\* Publish, rollback, version status update and version delete on the
\* first agent, and reads of its current version.
NextCurrent ==
    \/ nextAgentId \in EditedAgents /\ create_agent("n1")
           /\ UNCHANGED <<ivars, pvars>>
    \/ \E a \in EditedAgents : publish_version_api(a)
           /\ UNCHANGED <<ivars, pvars>>
    \/ \E a \in EditedAgents, v \in VersionNos : rollback_version_impl(a, v)
           /\ UNCHANGED <<ivars, pvars>>
    \/ \E a \in EditedAgents, v \in VersionNos :
           update_version_status_impl(a, v, STATUS_DISABLED)
           /\ UNCHANGED <<ivars, pvars>>
    \/ \E a \in EditedAgents, v \in VersionNos : delete_version_impl(a, v)
           /\ UNCHANGED <<ivars, pvars>>
    \/ \E a \in EditedAgents : get_current_version_impl(a)
           /\ UNCHANGED <<ivars, pvars>>

\* Agents are given tools and sub-agents before their first publish, then
\* published and deleted; publish, rollback and the version list are
\* called on them at any time.
NextDelete ==
    \/ create_agent("n1")
           /\ UNCHANGED <<ivars, pvars>>
    \/ \E a \in AgentIds :
           a < nextAgentId /\ a \notin deletedAgents /\ issued[a] = {}
           /\ update_related_agents(a, SubAgentIds, 0)
           /\ UNCHANGED <<ivars, pvars>>
    \/ \E a \in AgentIds, t \in ToolIds :
           a < nextAgentId /\ a \notin deletedAgents /\ issued[a] = {}
           /\ create_or_update_tool_by_tool_info(a, t, TRUE, 0)
           /\ UNCHANGED <<ivars, pvars>>
    \/ \E a \in AgentIds : nextVersionId <= MaxDraftPublishes /\ publish_version_api(a)
           /\ UNCHANGED <<ivars, pvars>>
    \/ \E a \in AgentIds : delete_agent_by_id(a)
           /\ UNCHANGED <<ivars, pvars>>
    \/ \E a \in AgentIds, v \in 0..MaxDraftPublishes : rollback_version_impl(a, v)
           /\ UNCHANGED <<ivars, pvars>>
    \/ \E a \in AgentIds : get_version_list_impl(a)
           /\ UNCHANGED <<ivars, pvars>>

Spec == Init /\ [][Next]_allvars
SpecStatus == Init /\ [][NextStatus]_allvars
SpecDraft == Init /\ [][NextDraft]_allvars
SpecSnapshot == Init /\ [][NextSnapshot]_allvars
SpecAgents == Init /\ [][NextAgents]_allvars
SpecInvite == Init /\ [][NextInvite]_allvars
SpecInviteRace == Init /\ [][NextInviteRace]_allvars
SpecInviteCodes == Init /\ [][NextInviteCodes]_allvars
SpecGenerate == Init /\ [][NextGenerate]_allvars
SpecInviteRoles == Init /\ [][NextInviteRoles]_allvars
SpecRoutes == Init /\ [][NextRoutes]_allvars
SpecCurrent == Init /\ [][NextCurrent]_allvars
SpecDelete == Init /\ [][NextDelete]_allvars
SpecCompare == Init /\ [][NextCompare]_allvars
SpecPublishRace == Init /\ [][NextPublishRace]_allvars
SpecPublishCrash == Init /\ [][NextPublishCrash]_allvars

\* The loop is ordinary sequential code: a call that has begun goes on to
\* its next pass.
SpecGenerateFair ==
    SpecGenerate /\ WF_allvars(\E c \in Codes : generate_step(c) /\ UNCHANGED vars)

\* ------------------------------------------------------------- properties
Live(a) == a < nextAgentId /\ a \notin deletedAgents

DraftRows(a) == {i \in DOMAIN agentInfo :
                    /\ agentInfo[i].agent_id = a /\ agentInfo[i].version_no = 0
                    /\ agentInfo[i].delete_flag = "N"}

RegistryRows(a) == {r \in Range(agentVersion) : r.agent_id = a}

\* The values of current_version_no on the agent's draft rows.
DraftPointer(a) == {agentInfo[i].current_version_no : i \in DraftRows(a)}

\* Version v of agent a has a registry row that is not soft-deleted.
HasVersion(a, v) ==
    \E r \in RegistryRows(a) : r.version_no = v /\ r.delete_flag = "N"

IsPrefix(s, t) == Len(s) <= Len(t) /\ SubSeq(t, 1, Len(s)) = s

\* The rows appended to table s by the step that leaves it as t.
Appended(s, t) == {t[i] : i \in (Len(s) + 1)..Len(t)}

\* C1: a publish on a live agent that has a draft row and no prior versions
\* returns version_no = 1, inserts one registry row with version_no 1 and
\* status RELEASED, and sets the draft's current_version_no to 1.
C1_FirstPublish ==
    [][\A a \in AgentIds :
        (/\ last'.op = "publish" /\ last'.agent_id = a
         /\ Live(a) /\ DraftRows(a) # {}
         /\ RegistryRows(a) = {}
         /\ \A r \in Range(agentInfo) : r.agent_id = a => r.version_no = 0)
        => /\ last'.ok /\ last'.version_no = 1
           /\ Len(agentVersion') = Len(agentVersion) + 1
           /\ \A r \in Appended(agentVersion, agentVersion') :
                 r.agent_id = a /\ r.version_no = 1 /\ r.status = STATUS_RELEASED
                 /\ r.delete_flag = "N"
           /\ DraftPointer(a)' = {1}]_vars

C1_Witness ==
    /\ last.op = "publish" /\ last.ok /\ last.version_no = 1
    /\ Cardinality(RegistryRows(last.agent_id)) = 1

\* C2: every successful publish returns a version_no strictly greater than
\* every version_no issued before it for the agent, also after the version
\* that carried a number was soft-deleted.
C2_StrictlyIncreasing ==
    [][\A a \in AgentIds :
        (last'.op = "publish" /\ last'.agent_id = a /\ last'.ok)
        => \A n \in issued[a] : last'.version_no > n]_vars

\* A publish that follows the soft delete of the highest version so far.
C2_Witness ==
    /\ last.op = "publish" /\ last.ok
    /\ \E r \in RegistryRows(last.agent_id) :
          /\ r.delete_flag = "Y"
          /\ r.version_no = last.version_no - 1

\* C3: a successful publish leaves every pre-existing registry row and every
\* pre-existing agent, tool and relation row unchanged, except that the
\* draft row's current_version_no becomes the new number; every row it
\* inserts carries the new version number.
C3_PublishFrame ==
    [][\A a \in AgentIds :
        (last'.op = "publish" /\ last'.agent_id = a /\ last'.ok)
        => LET n == last'.version_no IN
           /\ IsPrefix(agentVersion, agentVersion')
           /\ IsPrefix(toolInstance, toolInstance')
           /\ IsPrefix(agentRelation, agentRelation')
           /\ Len(agentInfo') = Len(agentInfo) + 1
           /\ \A i \in DOMAIN agentInfo :
                 IF i \in DraftRows(a)
                 THEN agentInfo'[i] = [agentInfo[i] EXCEPT !.current_version_no = n]
                 ELSE agentInfo'[i] = agentInfo[i]
           /\ \A r \in Appended(agentInfo, agentInfo') \cup
                       Appended(toolInstance, toolInstance') \cup
                       Appended(agentVersion, agentVersion') :
                 r.agent_id = a /\ r.version_no = n
           /\ \A r \in Appended(agentRelation, agentRelation') :
                 r.parent_agent_id = a /\ r.version_no = n]_vars

\* A second publish made while version 1 has agent, tool and relation
\* snapshot rows and the draft has been edited since.
C3_Witness ==
    /\ last.op = "publish" /\ last.ok /\ last.version_no = 2
    /\ \E r \in Range(toolInstance) : r.agent_id = last.agent_id /\ r.version_no = 1
    /\ \E r \in Range(agentRelation) :
          r.parent_agent_id = last.agent_id /\ r.version_no = 1
    /\ \E r, d \in Range(agentInfo) :
          /\ r.agent_id = last.agent_id /\ r.version_no = 1
          /\ d.agent_id = last.agent_id /\ d.version_no = 0 /\ d.name # r.name

\* C4: a rollback to an existing, non-deleted version of an agent that has
\* a draft succeeds and changes only the draft's current_version_no, to the
\* target: no row is inserted, no registry, tool or relation row changes and
\* no other field of an agent row changes.
C4_RollbackFrame ==
    [][\A a \in AgentIds :
        (/\ last'.op = "rollback" /\ last'.agent_id = a
         /\ HasVersion(a, last'.version_no)
         /\ DraftRows(a) # {})
        => /\ last'.ok
           /\ agentVersion' = agentVersion
           /\ toolInstance' = toolInstance
           /\ agentRelation' = agentRelation
           /\ Len(agentInfo') = Len(agentInfo)
           /\ \A i \in DOMAIN agentInfo :
                 IF i \in DraftRows(a)
                 THEN agentInfo'[i] =
                          [agentInfo[i] EXCEPT !.current_version_no = last'.version_no]
                 ELSE agentInfo'[i] = agentInfo[i]]_vars

\* A rollback to an older version whose snapshot differs from the draft.
C4_Witness ==
    /\ last.op = "rollback" /\ last.ok
    /\ last.version_no < Max(issued[last.agent_id])
    /\ \E r, d \in Range(agentInfo) :
          /\ r.agent_id = last.agent_id /\ r.version_no = last.version_no
          /\ d.agent_id = last.agent_id /\ d.version_no = 0 /\ d.name # r.name
          /\ d.current_version_no = last.version_no

\* C5: a rollback to a version number that has no non-deleted registry row
\* for the agent fails with ValueError "Version not found" and changes no
\* row, the draft's current_version_no included.
C5_RollbackNotFound ==
    [][\A a \in AgentIds :
        (/\ last'.op = "rollback" /\ last'.agent_id = a
         /\ ~HasVersion(a, last'.version_no))
        => /\ ~last'.ok /\ last'.exc = "ValueError" /\ last'.msg = "Version not found"
           /\ UNCHANGED tables]_vars

\* A failed rollback to a soft-deleted version while a version is current.
C5_Witness ==
    /\ last.op = "rollback" /\ ~last.ok /\ last.msg = "Version not found"
    /\ DraftPointer(last.agent_id) \cap issued[last.agent_id] # {}
    /\ \E r \in RegistryRows(last.agent_id) :
          r.version_no = last.version_no /\ r.delete_flag = "Y"

\* C6: delete_version_impl fails and changes no row when version_no is 0 or
\* equals the draft's current_version_no, in every reachable state.
C6_DeleteBlocked ==
    [][\A a \in AgentIds :
        (/\ last'.op = "delete_version" /\ last'.agent_id = a
         /\ \/ last'.version_no = 0
            \/ last'.version_no \in DraftPointer(a))
        => /\ ~last'.ok /\ last'.exc = "ValueError"
           /\ UNCHANGED tables]_vars

\* A refused delete of the current version after a rollback to an older one.
C6_Witness ==
    /\ last.op = "delete_version" /\ ~last.ok
    /\ last.msg = "Cannot delete the current published version"
    /\ last.version_no < Max(issued[last.agent_id])

\* C7: the version list is exactly the non-deleted registry rows of the
\* agent, once each, in descending version_no order, with total equal to
\* their count; no row soft-deleted by delete_version_impl is in it.
C7_VersionList ==
    last.op = "list" =>
        LET a == last.agent_id
            items == last.items
            kept == {r \in RegistryRows(a) : r.delete_flag = "N"}
        IN  /\ Range(items) = kept
            /\ Len(items) = Cardinality(kept)
            /\ last.total = Cardinality(kept)
            /\ \A i, j \in DOMAIN items :
                  i < j => items[i].version_no > items[j].version_no
            /\ \A r \in Range(items) : r.id \notin deletedVersionIds

\* A listing of two versions made after a third was soft-deleted.
C7_Witness ==
    /\ last.op = "list" /\ Len(last.items) >= 2
    /\ \E r \in RegistryRows(last.agent_id) : r.id \in deletedVersionIds

\* C8 (as stated): the draft's current_version_no of a live agent is unset
\* before the first publish and otherwise the highest version_no published.
C8_Original ==
    \A a \in AgentIds : Live(a) =>
        IF issued[a] = {} THEN DraftPointer(a) = {None}
        ELSE DraftPointer(a) = {Max(issued[a])}

\* C8 (amended): the draft's current_version_no of a live agent is unset
\* before the first publish and otherwise the number set by the most recent
\* successful publish or rollback: the highest version_no published so far
\* when no rollback followed the last publish, else the rollback's target,
\* which is a published version.
C8_CurrentVersion ==
    \A a \in AgentIds : Live(a) =>
        IF issued[a] = {} THEN DraftPointer(a) = {None}
        ELSE /\ DraftPointer(a) \subseteq issued[a]
             /\ DraftPointer(a) =
                    IF pendingRollback[a] = None THEN {Max(issued[a])}
                    ELSE {pendingRollback[a]}

\* A live agent whose draft points below its highest published version.
C8_Witness ==
    \E a \in AgentIds :
        /\ Live(a) /\ issued[a] # {}
        /\ \E c \in DraftPointer(a) : c # None /\ c < Max(issued[a])

\* C9: every live agent has exactly one non-deleted AgentInfo row with
\* version_no = 0, and a deleted agent has none.
C9_OneDraft ==
    \A a \in AgentIds :
        /\ Live(a) => Cardinality(DraftRows(a)) = 1
        /\ a \in deletedAgents => DraftRows(a) = {}

\* C10: the registry row created by a publish that follows a rollback to
\* version T has source_type ROLLBACK and source_version_no T.
C10_RollbackTagged ==
    [][\A a \in AgentIds :
        (/\ last'.op = "publish" /\ last'.agent_id = a /\ last'.ok
         /\ pendingRollback[a] # None)
        => \A r \in Appended(agentVersion, agentVersion') :
              /\ r.source_type = SOURCE_TYPE_ROLLBACK
              /\ r.source_version_no = pendingRollback[a]]_vars

\* C11: a publish on an agent with no non-deleted draft row (never created,
\* or deleted) fails with ValueError, returns no version number and inserts
\* or updates no row.
C11_PublishNoDraft ==
    [][\A a \in AgentIds :
        (last'.op = "publish" /\ last'.agent_id = a /\ DraftRows(a) = {})
        => /\ ~last'.ok /\ last'.exc = "ValueError"
           /\ last'.msg = "Agent draft not found"
           /\ last'.version_no = None
           /\ UNCHANGED <<tables, nextVersionId>>]_vars

\* A refused publish on a deleted agent that has published versions.
C11_Witness ==
    /\ last.op = "publish" /\ ~last.ok
    /\ last.agent_id \in deletedAgents
    /\ issued[last.agent_id] # {}

\* The non-deleted draft tool rows and draft relation rows of agent a.
DraftTools(a) == {r \in Range(toolInstance) :
                     r.agent_id = a /\ r.version_no = 0 /\ r.delete_flag = "N"}

DraftRelations(a) == {r \in Range(agentRelation) :
                         r.parent_agent_id = a /\ r.version_no = 0 /\ r.delete_flag = "N"}

\* The rows a successful publish of version n appended, compared with the
\* draft agent row, the draft tool rows src and the draft relation rows:
\* every field but version_no, current_version_no and the audit fields is
\* the draft's.
SnapshotOf(a, n, src) ==
    /\ Len(agentInfo') = Len(agentInfo) + 1
    /\ \A r \in Appended(agentInfo, agentInfo') : \A i \in DraftRows(a) :
          /\ r.version_no = n
          /\ r = [agentInfo[i] EXCEPT !.version_no = n,
                                      !.current_version_no = r.current_version_no,
                                      !.created_by = r.created_by,
                                      !.updated_by = r.updated_by]
    /\ Len(toolInstance') = Len(toolInstance) + Cardinality(src)
    /\ {[r EXCEPT !.version_no = 0, !.updated_by = NoUser] :
            r \in Appended(toolInstance, toolInstance')}
       = {[r EXCEPT !.updated_by = NoUser] : r \in src}
    /\ Len(agentRelation') = Len(agentRelation) + Cardinality(DraftRelations(a))
    /\ {[r EXCEPT !.version_no = 0, !.updated_by = NoUser] :
            r \in Appended(agentRelation, agentRelation')}
       = {[r EXCEPT !.updated_by = NoUser] : r \in DraftRelations(a)}

\* C12 (as stated): a successful publish copies, under the new version
\* number, the draft agent row, exactly the draft's enabled non-deleted tool
\* rows and the draft's non-deleted relation rows.
C12_Original ==
    [][\A a \in AgentIds :
        (last'.op = "publish" /\ last'.agent_id = a /\ last'.ok)
        => SnapshotOf(a, last'.version_no, {r \in DraftTools(a) : r.enabled})]_vars

\* C12 (amended): a successful publish copies, under the new version number,
\* the draft agent row, every non-deleted draft tool row whatever its enabled
\* flag (the flag is copied with the row) and the draft's non-deleted
\* relation rows; the copies' fields equal the draft's at publish time except
\* version_no, current_version_no and the audit fields.
C12_SnapshotCopy ==
    [][\A a \in AgentIds :
        (last'.op = "publish" /\ last'.agent_id = a /\ last'.ok)
        => SnapshotOf(a, last'.version_no, DraftTools(a))]_vars

\* A published version that holds an edited name, a disabled tool row and a
\* relation row, made while the draft also had a soft-deleted relation row.
C12_Witness ==
    /\ last.op = "publish" /\ last.ok
    /\ \E r \in Range(agentInfo) :
          r.agent_id = last.agent_id /\ r.version_no = last.version_no /\ r.name = "n2"
    /\ \E r \in Range(toolInstance) :
          r.agent_id = last.agent_id /\ r.version_no = last.version_no /\ ~r.enabled
    /\ \E r \in Range(agentRelation) :
          r.parent_agent_id = last.agent_id /\ r.version_no = last.version_no
    /\ \E r \in Range(agentRelation) :
          r.parent_agent_id = last.agent_id /\ r.version_no = 0 /\ r.delete_flag = "Y"

\* C13: while an agent is live, no step changes any of its agent, tool or
\* relation rows whose version_no is 1 or more: draft edits made with the
\* default version_no = 0, later publishes, rollbacks, status updates and
\* version deletes leave the snapshot rows as the publish inserted them.
C13_SnapshotImmutable ==
    [][\A a \in AgentIds : Live(a) =>
        /\ \A i \in DOMAIN agentInfo :
              (agentInfo[i].agent_id = a /\ agentInfo[i].version_no >= 1)
              => agentInfo'[i] = agentInfo[i]
        /\ \A i \in DOMAIN toolInstance :
              (toolInstance[i].agent_id = a /\ toolInstance[i].version_no >= 1)
              => toolInstance'[i] = toolInstance[i]
        /\ \A i \in DOMAIN agentRelation :
              (agentRelation[i].parent_agent_id = a /\ agentRelation[i].version_no >= 1)
              => agentRelation'[i] = agentRelation[i]]_vars

\* Version 1 holds the first name, an enabled tool and a relation while the
\* draft has since been renamed, its tool disabled and its relation removed;
\* a later version was published, and version 1 was disabled and then
\* soft-deleted.
C13_Witness ==
    \E a \in AgentIds :
        /\ Live(a)
        /\ \E r, d \in Range(agentInfo) :
              /\ r.agent_id = a /\ r.version_no = 1 /\ r.name = "n1"
              /\ d.agent_id = a /\ d.version_no = 0 /\ d.name = "n2"
        /\ \E r, d \in Range(toolInstance) :
              /\ r.agent_id = a /\ r.version_no = 1 /\ r.enabled
              /\ d.agent_id = a /\ d.version_no = 0 /\ ~d.enabled
        /\ \E r, d \in Range(agentRelation) :
              /\ r.parent_agent_id = a /\ r.version_no = 1 /\ r.delete_flag = "N"
              /\ d.parent_agent_id = a /\ d.version_no = 0 /\ d.delete_flag = "Y"
        /\ \E r \in RegistryRows(a) :
              r.version_no = 1 /\ r.status = STATUS_DISABLED /\ r.delete_flag = "Y"
        /\ \E r \in RegistryRows(a) : r.version_no > 1

\* C14: update_version_status_impl raises ValueError and changes nothing for
\* a status other than DISABLED or ARCHIVED and for a version with no
\* non-deleted registry row; otherwise it sets the status on the version's
\* non-deleted registry rows and on nothing else, whatever their present
\* status and also on the current published version.  No step takes a
\* registry row that has left RELEASED back to RELEASED.
C14_StatusUpdate ==
    [][/\ \A a \in AgentIds :
            (last'.op = "status" /\ last'.agent_id = a) =>
            LET v == last'.version_no
                st == last'.arg
            IN  IF st \notin {"DISABLED", "ARCHIVED"} \/ ~HasVersion(a, v)
                THEN /\ ~last'.ok /\ last'.exc = "ValueError"
                     /\ UNCHANGED tables
                ELSE /\ last'.ok
                     /\ UNCHANGED <<agentInfo, toolInstance, agentRelation>>
                     /\ Len(agentVersion') = Len(agentVersion)
                     /\ \A i \in DOMAIN agentVersion :
                           LET r == agentVersion[i] IN
                           IF r.agent_id = a /\ r.version_no = v /\ r.delete_flag = "N"
                           THEN agentVersion'[i] =
                                    [r EXCEPT !.status = st,
                                              !.updated_by = agentVersion'[i].updated_by]
                           ELSE agentVersion'[i] = r
       /\ \A i \in DOMAIN agentVersion :
             agentVersion[i].status # "RELEASED" => agentVersion'[i].status # "RELEASED"
      ]_vars

\* A status update to ARCHIVED accepted on the current published version.
C14_Witness ==
    /\ last.op = "status" /\ last.ok /\ last.arg = "ARCHIVED"
    /\ last.version_no \in DraftPointer(last.agent_id)
    /\ \E r \in RegistryRows(last.agent_id) :
          r.version_no = last.version_no /\ r.status = "ARCHIVED"
    /\ \E r \in RegistryRows(last.agent_id) : r.status = "DISABLED"

\* The status rule of the specification.
RuleStatus(t, expiry_date, capacity, usage_count) ==
    IF expiry_date # None /\ t > expiry_date THEN "EXPIRE"
    ELSE IF usage_count >= capacity THEN "RUN_OUT"
    ELSE "IN_USE"

InvitationRows(id) == {r \in Range(invitationCode) : r.invitation_id = id}

UsageCount(id) == Cardinality({i \in DOMAIN invitationRecord :
                                  invitationRecord[i].invitation_id = id})

\* The last step ran update_invitation_code_status on invitation id.
StatusUpdated(id) ==
    /\ ilast.invitation_id = id
    /\ ilast.op \in {"create", "update", "use", "update_status"}
    /\ ilast.ok
    /\ InvitationRows(id) # {}

\* C15: after update_invitation_code_status has run on an invitation, alone
\* or at the end of a create, an update or a use, the stored status is
\* EXPIRE if now > expiry_date, else RUN_OUT if usage_count >= capacity, else
\* IN_USE, whatever status was stored before.
C15_StatusPersisted ==
    [][\A id \in InvitationIds : StatusUpdated(id)' =>
          \A r \in InvitationRows(id)' :
              r.status = RuleStatus(now', r.expiry_date, r.capacity, UsageCount(id)')
      ]_ivars

\* An update that raised the capacity of a used-up invitation and so took
\* its stored status from RUN_OUT back to IN_USE.
C15_Witness ==
    /\ ilast.op = "update" /\ ilast.ok /\ ilast.changed /\ ilast.status = "IN_USE"
    /\ UsageCount(ilast.invitation_id) >= 1
    /\ \A r \in InvitationRows(ilast.invitation_id) :
          r.expiry_date = None /\ r.status = "IN_USE"

\* C16: the status get_invitation_by_code reports is the one the status rule
\* gives for the invitation's expiry date, capacity and usage count at the
\* time of the read; a used-up invitation whose expiry date has passed reads
\* as EXPIRE.
C16_ReadMatchesRule ==
    (ilast.op = "get" /\ ilast.ok) =>
        \A r \in InvitationRows(ilast.invitation_id) :
            ilast.status = RuleStatus(now, r.expiry_date, r.capacity,
                                      UsageCount(ilast.invitation_id))

\* C17: use_invitation_code decides on the status derived from the current
\* time, so an invitation whose expiry date has passed is not reported
\* available and receives no usage record, also when nothing was written
\* since it expired.
C17_NoUseAfterExpiry ==
    (ilast.op = "use" /\ ilast.ok) =>
        \A r \in InvitationRows(ilast.invitation_id) :
            ~(r.expiry_date # None /\ now > r.expiry_date)

\* C18: after any sequence of create, use and update calls, updates of the
\* capacity included, no invitation has more usage records than capacity.
C18_CapacityBound ==
    \A r \in Range(invitationCode) : UsageCount(r.invitation_id) <= r.capacity

\* C19: when two use_invitation_code calls for the same code interleave,
\* each with its availability check and its insert in a session of its
\* own, the calls that passed the check on an invitation never insert more
\* records than the invitation had free slots: the record count stays
\* within the capacity.
C19_RaceWithinCapacity ==
    ~ \E i \in DOMAIN invitationCode :
          Cardinality({j \in DOMAIN invitationRecord :
                          invitationRecord[j].invitation_id
                              = invitationCode[i].invitation_id})
              > invitationCode[i].capacity

\* C20: _generate_unique_invitation_code never returns a code that an
\* existing invitation carries at the moment of return: when
\* create_invitation_code generated its code and stopped before adding a
\* row, so that the table is still the one the generator saw,
\* query_invitation_by_code finds no row for the generated code.
C20_GeneratedIsFree ==
    (ilast.op = "create" /\ ilast.generated # NoCode /\ ~ilast.ok) =>
        query_invitation_by_code(invitationCode, ilast.generated) = <<>>

\* C21: _generate_unique_invitation_code always terminates; it makes at most
\* 100 uniqueness queries and returns at the first candidate found unused;
\* when all 100 candidates are taken it raises RuntimeError after exactly
\* 100 queries, and create_invitation_code then inserts no invitation.
C21_GeneratorTerminates ==
    /\ [](gen.queries <= 100 /\ gen.attempts <= 100)
    /\ [](gen.stage = "returned" => gen.queries = gen.attempts + 1)
    /\ [](gen.stage = "raised" => gen.queries = 100 /\ gen.attempts = 100)
    /\ [][(gen.stage = "running" /\ gen'.stage = "raised")
             => /\ ilast'.exc = "RuntimeError"
                /\ UNCHANGED <<invitationCode, invitationRecord, nextInvitationId>>
         ]_allvars
    /\ [][(gen.stage = "running" /\ gen'.stage = "running"
             /\ gen'.queries = gen.queries + 1)
             => \E c \in Codes : query_invitation_by_code(invitationCode, c) # <<>>
         ]_allvars
    /\ (gen.stage = "running" ~> gen.stage # "running")

C21_Witness ==
    /\ gen.stage = "raised" /\ gen.queries = 100
    /\ ilast.op = "create" /\ ilast.exc = "RuntimeError"
    /\ invitationCode # <<>>

\* The roles the permission table allows for a code type.
Permitted(code_type, user_role) ==
    \/ code_type = "ADMIN_INVITE" /\ user_role = "SU"
    \/ code_type \in {"DEV_INVITE", "USER_INVITE"} /\ user_role \in {"SU", "ADMIN"}

\* C22: create_invitation_code inserts an invitation only when the caller's
\* role permits the code type (ADMIN_INVITE: SU; DEV_INVITE and USER_INVITE:
\* SU or ADMIN); an unknown code_type raises ValueError, an unknown user
\* NotFoundException and any other role UnauthorizedError, each before
\* anything is written.
C22_RolePermission ==
    [][ilast'.op = "create" =>
        LET ct == ilast'.code_type
            role == ilast'.user_role
            known == ct \in {"ADMIN_INVITE", "DEV_INVITE", "USER_INVITE"}
            written == <<invitationCode, invitationRecord, nextInvitationId>>
        IN  /\ ~known => ilast'.exc = "ValueError" /\ UNCHANGED written
            /\ (known /\ role = "none")
                  => ilast'.exc = "NotFoundException" /\ UNCHANGED written
            /\ (known /\ role # "none" /\ ~Permitted(ct, role))
                  => ilast'.exc = "UnauthorizedError" /\ UNCHANGED written
            /\ invitationCode' # invitationCode => Permitted(ct, role)
            /\ Permitted(ct, role)
                  => ilast'.exc \notin {"ValueError", "NotFoundException",
                                         "UnauthorizedError"}
      ]_allvars

C22_Witness ==
    /\ ilast.op = "create" /\ ilast.exc = "UnauthorizedError"
    /\ ilast.code_type = "ADMIN_INVITE" /\ ilast.user_role = "ADMIN"
    /\ \E i \in DOMAIN invitationCode : invitationCode[i].code_type = "ADMIN_INVITE"

\* The status code the table gives for an exception.
TableStatus(exception) ==
    CASE exception = "ValueError" -> BAD_REQUEST
      [] exception = "NotFoundException" -> NOT_FOUND
      [] exception = "UnauthorizedError" -> UNAUTHORIZED
      [] exception = "DuplicateError" -> CONFLICT
      [] OTHER -> INTERNAL_SERVER_ERROR

\* C23 as stated: every version route and every invitation route maps a
\* service exception by the one table ValueError 400, NotFoundException 404,
\* UnauthorizedError 401, DuplicateError 409, any other exception 500.
C23_Original ==
    response.exception \notin {"none", "ValidationError"}
        => response.status_code = TableStatus(response.exception)

\* C23, amended: each route maps by its own list of except clauses.
\* ValueError gives 400 on publish, compare, rollback, status, delete and
\* create invitation, 404 on get version, version detail and current
\* version; NotFoundException gives 404 on the invitation routes create,
\* update, get, delete, use and update-status; UnauthorizedError gives 401
\* on the invitation routes list, create, update, delete and use;
\* DuplicateError gives 409 on create invitation; ValidationError gives 400
\* on update and delete invitation; every other pair of route and exception
\* gives 500.
C23_RouteTable ==
    LET route == response.route
        exception == response.exception
        expected ==
            CASE exception = "ValueError"
                   /\ route \in {"publish_version_api", "compare_versions_api",
                                 "rollback_version_api", "update_version_status_api",
                                 "delete_version_api", "create_invitation_endpoint"}
                   -> 400
              [] exception = "ValueError"
                   /\ route \in {"get_version_api", "get_version_detail_api",
                                 "get_current_version_api"}
                   -> 404
              [] exception = "NotFoundException"
                   /\ route \in InvitationRoutes
                         \ {"list_invitations_endpoint",
                            "check_invitation_code_endpoint",
                            "check_invitation_available_endpoint"}
                   -> 404
              [] exception = "UnauthorizedError"
                   /\ route \in {"list_invitations_endpoint",
                                 "create_invitation_endpoint",
                                 "update_invitation_endpoint",
                                 "delete_invitation_endpoint",
                                 "use_invitation_endpoint"}
                   -> 401
              [] exception = "DuplicateError" /\ route = "create_invitation_endpoint"
                   -> 409
              [] exception = "ValidationError"
                   /\ route \in {"update_invitation_endpoint",
                                 "delete_invitation_endpoint"}
                   -> 400
              [] OTHER -> 500
    IN  (route # "none" /\ exception # "none") => response.status_code = expected

C23_Witness ==
    /\ response.route = "get_version_api"
    /\ response.exception = "ValueError"
    /\ response.status_code = 404

\* C24: after any sequence of create_invitation_code calls no two
\* invitations carry the same code; a supplied code is stored in upper case,
\* and a create that finds its code in the table raises DuplicateError
\* and inserts nothing.
C24_UniqueCodes ==
    /\ [](\A i, j \in DOMAIN invitationCode :
             i # j => invitationCode[i].invitation_code
                        # invitationCode[j].invitation_code)
    /\ [](\A i \in DOMAIN invitationCode :
             invitationCode[i].invitation_code
                 = Upper(invitationCode[i].invitation_code))
    /\ [][(ilast'.op = "create" /\ ilast'.generated = NoCode /\ ilast'.code # NoCode)
             => IF \E i \in DOMAIN invitationCode :
                      invitationCode[i].invitation_code = ilast'.code
                THEN /\ ilast'.exc = "DuplicateError"
                     /\ UNCHANGED <<invitationCode, invitationRecord, nextInvitationId>>
                ELSE /\ ilast'.ok
                     /\ Len(invitationCode') = Len(invitationCode) + 1
                     /\ invitationCode'[Len(invitationCode')].invitation_code
                            = ilast'.code
         ]_allvars

C24_Witness ==
    /\ ilast.op = "create" /\ ilast.exc = "DuplicateError"
    /\ ilast.generated = NoCode
    /\ Len(invitationCode) = 2

\* The non-deleted rows with a version number, per table.
SnapshotRows(a, n) ==
    {i \in DOMAIN agentInfo : /\ agentInfo[i].agent_id = a
                              /\ agentInfo[i].version_no = n
                              /\ agentInfo[i].delete_flag = "N"}

VersionRows(a, n) ==
    {i \in DOMAIN agentVersion : /\ agentVersion[i].agent_id = a
                                 /\ agentVersion[i].version_no = n
                                 /\ agentVersion[i].delete_flag = "N"}

\* C25: two publish_version_impl calls on one agent that interleave can both
\* read the same maximum before either inserts and compute the same
\* next_version_no; each then inserts its own rows, so that once both have
\* inserted their registry row there are two snapshot rows and two registry
\* rows with the one version number.
C25_RaceDuplicates ==
    \A p, q \in Publishers :
        (/\ p # q
         /\ pubPc[p].stage \in {"current", "done"}
         /\ pubPc[q].stage \in {"current", "done"}
         /\ pubPc[p].agent_id = pubPc[q].agent_id
         /\ pubPc[p].new_version_no = pubPc[q].new_version_no)
        => /\ Cardinality(SnapshotRows(pubPc[p].agent_id, pubPc[p].new_version_no)) >= 2
           /\ Cardinality(VersionRows(pubPc[p].agent_id, pubPc[p].new_version_no)) >= 2

C25_Witness ==
    /\ pubPc["p1"].stage = "done" /\ pubPc["p2"].stage = "done"
    /\ pubPc["p1"].new_version_no = 1 /\ pubPc["p2"].new_version_no = 1
    /\ Cardinality(SnapshotRows(1, 1)) = 2
    /\ Cardinality(VersionRows(1, 1)) = 2

\* The non-deleted tool and relation rows with a version number.
ToolRows(a, n) ==
    {i \in DOMAIN toolInstance : /\ toolInstance[i].agent_id = a
                                 /\ toolInstance[i].version_no = n
                                 /\ toolInstance[i].delete_flag = "N"}

RelationRows(a, n) ==
    {i \in DOMAIN agentRelation : /\ agentRelation[i].parent_agent_id = a
                                  /\ agentRelation[i].version_no = n
                                  /\ agentRelation[i].delete_flag = "N"}

\* C26: every insert and update of publish_version_impl commits in its own
\* session, so a failure takes nothing back: a failure after the agent
\* snapshot insert and before the registry insert leaves the snapshot row
\* persisted with no registry row for its number and current_version_no as
\* it was, and a failure in the tool loop leaves the agent copied with the
\* tools copied in part and no relation copied.
C26_PartialSnapshot ==
    [][(pubPc["p1"].stage # "failed" /\ pubPc'["p1"].stage = "failed") =>
        LET pc == pubPc["p1"]
            a == pc.agent_id
            n == pc.new_version_no
        IN  /\ UNCHANGED tables
            /\ last'.exc = "Exception"
            /\ pc.stage \in {"tools", "relations", "version"} =>
                  /\ SnapshotRows(a, n)' # {}
                  /\ VersionRows(a, n)' = {}
                  /\ \A i \in DraftRows(a)' :
                         agentInfo'[i].current_version_no
                             = Head(pc.draft.agent).current_version_no
            /\ pc.stage = "tools" =>
                  /\ Cardinality(ToolRows(a, n)') = pc.done
                  /\ pc.done < Len(pc.draft.tools)
                  /\ RelationRows(a, n)' = {}
            /\ pc.stage = "relations" =>
                  /\ Cardinality(ToolRows(a, n)') = Len(pc.draft.tools)
                  /\ Cardinality(RelationRows(a, n)') = pc.done
                  /\ pc.done < Len(pc.draft.relations)
      ]_allvars

C26_Witness ==
    /\ pubPc["p1"].stage = "failed"
    /\ last.op = "publish" /\ last.exc = "Exception" /\ last.arg = "tools"
    /\ SnapshotRows(1, last.version_no) # {}
    /\ VersionRows(1, last.version_no) = {}
    /\ ToolRows(1, last.version_no) = {}
    /\ ToolRows(1, 0) # {}

\* C27: update_invitation_code_status writes the status only when the
\* derived status differs from the stored one and returns True exactly
\* then; a second call right after a call on the same invitation, with no
\* change of time, capacity, expiry or usage in between, writes nothing and
\* returns False; for an unknown invitation id it returns False and
\* writes nothing.
C27_StatusUpdateIdempotent ==
    [][ilast'.op = "update_status" =>
        LET id == ilast'.invitation_id
        IN  /\ UNCHANGED <<invitationRecord, nextInvitationId>>
            /\ ilast'.changed <=>
                  \E r \in InvitationRows(id) :
                      r.status # RuleStatus(now, r.expiry_date, r.capacity,
                                            UsageCount(id))
            /\ ilast'.changed <=> invitationCode' # invitationCode
            /\ \A i \in DOMAIN invitationCode :
                  /\ i \in DOMAIN invitationCode'
                  /\ invitationCode'[i] # invitationCode[i] =>
                        /\ invitationCode[i].invitation_id = id
                        /\ invitationCode'[i]
                              = [invitationCode[i] EXCEPT !.status =
                                    RuleStatus(now, invitationCode[i].expiry_date,
                                               invitationCode[i].capacity,
                                               UsageCount(id))]
            /\ InvitationRows(id) = {} => ~ilast'.changed
            /\ (ilast.op \in {"create", "update", "use", "update_status"}
                /\ ilast.ok /\ ilast.invitation_id = id)
                  => ~ilast'.changed /\ UNCHANGED invitationCode
      ]_allvars

C27_Witness ==
    /\ ilast.op = "update_status" /\ ilast.changed
    /\ \A r \in InvitationRows(ilast.invitation_id) :
          r.status = "EXPIRE" /\ UsageCount(r.invitation_id) >= r.capacity

\* The name a version (the draft for 0) shows, and the fields in which two
\* versions of an agent differ.
ShownName(a, v) == {agentInfo[i].name : i \in SnapshotRows(a, v)}

DifferingFields(a, va, vb) ==
    (IF ShownName(a, va) # ShownName(a, vb) THEN {"name"} ELSE {})
    \cup (IF Cardinality(ToolRows(a, va)) # Cardinality(ToolRows(a, vb))
          THEN {"tools_count"} ELSE {})
    \cup (IF Cardinality(RelationRows(a, va)) # Cardinality(RelationRows(a, vb))
          THEN {"sub_agents_count"} ELSE {})

C29_CurrentVersionExists ==
    /\ \A a \in AgentIds :
          Live(a) => \A v \in DraftPointer(a) : v # None => HasVersion(a, v)
    /\ last.op = "current_version" =>
          /\ last.msg # "Version not found"
          /\ (Live(last.agent_id) /\ issued[last.agent_id] # {}) => last.ok
          /\ last.ok => HasVersion(last.agent_id, last.version_no)

C29_Witness ==
    /\ last.op = "current_version" /\ last.ok /\ last.version_no = 1
    /\ \E r \in RegistryRows(1) : r.version_no = 2 /\ r.delete_flag = "Y"
    /\ \E r \in RegistryRows(1) : r.version_no = 1 /\ r.status = STATUS_DISABLED

\* The rows of the table tbl whose column col is the agent a.
RowsOf(tbl, col, a) == {i \in DOMAIN tbl : tbl[i][col] = a}

DeletedAgentCall(op) == last'.op = op /\ last'.agent_id \in deletedAgents

\* C30 as stated: after delete_agent_by_id every rollback_version_impl on
\* the agent fails with "Agent draft not found".
C30_Original ==
    [][DeletedAgentCall("rollback") =>
          ~last'.ok /\ last'.msg = "Agent draft not found"]_allvars

\* C30: delete_agent_by_id sets delete_flag = 'Y' on every AgentInfo row
\* and every ToolInstance row of the agent, for all version numbers, and
\* leaves the rows of other agents, the AgentVersion rows and the
\* AgentRelation rows untouched. Afterwards publish_version_impl on the
\* agent fails with "Agent draft not found"; rollback_version_impl fails
\* with "Agent draft not found" when its target is a version of the
\* registry and with "Version not found" otherwise; neither changes a row;
\* and get_version_list_impl still returns the agent's registry rows that
\* are not soft-deleted.
C30_DeleteAgentFrame ==
    [][/\ last'.op = "delete_agent" =>
            /\ \A i \in RowsOf(agentInfo', "agent_id", last'.agent_id) :
                   agentInfo'[i].delete_flag = "Y"
            /\ \A i \in RowsOf(toolInstance', "agent_id", last'.agent_id) :
                   toolInstance'[i].delete_flag = "Y"
            /\ DOMAIN agentInfo' = DOMAIN agentInfo
            /\ DOMAIN toolInstance' = DOMAIN toolInstance
            /\ \A i \in DOMAIN agentInfo \ RowsOf(agentInfo, "agent_id", last'.agent_id) :
                   agentInfo'[i] = agentInfo[i]
            /\ \A i \in DOMAIN toolInstance
                        \ RowsOf(toolInstance, "agent_id", last'.agent_id) :
                   toolInstance'[i] = toolInstance[i]
            /\ UNCHANGED <<agentVersion, agentRelation>>
       /\ DeletedAgentCall("publish") =>
            /\ ~last'.ok /\ last'.msg = "Agent draft not found"
            /\ UNCHANGED tables
       /\ DeletedAgentCall("rollback") =>
            /\ ~last'.ok
            /\ last'.msg = IF HasVersion(last'.agent_id, last'.version_no)
                            THEN "Agent draft not found" ELSE "Version not found"
            /\ UNCHANGED tables
       /\ DeletedAgentCall("list") =>
            /\ last'.ok
            /\ {r.version_no : r \in Range(last'.items)} =
                   {v \in VersionNos : HasVersion(last'.agent_id, v)}
            /\ last'.total = Cardinality(issued[last'.agent_id])
            /\ UNCHANGED tables]_allvars

\* A rollback to a published version of a deleted agent has failed on the
\* missing draft; the agent's snapshot and tool rows are all flagged and a
\* relation row of the published version is not.
C30_Witness ==
    /\ last.op = "rollback" /\ last.agent_id \in deletedAgents
    /\ last.msg = "Agent draft not found"
    /\ HasVersion(last.agent_id, last.version_no)
    /\ \E i \in DOMAIN toolInstance :
          /\ toolInstance[i].agent_id = last.agent_id
          /\ toolInstance[i].version_no = last.version_no
    /\ ToolRows(last.agent_id, last.version_no) = {}
    /\ SnapshotRows(last.agent_id, last.version_no) = {}
    /\ RelationRows(last.agent_id, last.version_no) # {}

====
